---- MODULE Spec2Model ----
(***************************************************************************)
(* A model of the Flux Kontext integration layer:                          *)
(*   - FluxKontextCreator.edit_image / wait_for_result                     *)
(*     (custom_nodes/FluxKontextCreator/flux_kontext_creator.py), the      *)
(*     submit -> poll -> download client of the remote edit API;           *)
(*   - build_workflow / validate_workflow / run_workflow / handler         *)
(*     (handler.py), the serverless job handler.                           *)
(* Strings that the code inspects character by character are sequences of  *)
(* one-character strings; node ids are the decimal digit sequences that    *)
(* str() produces.                                                         *)
(***************************************************************************)
EXTENDS Integers, Sequences, FiniteSets, TLC

(***************************************************************************)
(* Bounds of the model (not program constants).                            *)
(***************************************************************************)
MaxInstrLen == 2
MaxJobImages == 6
MaxHistoryPolls == 3
ShortLists == 2

(***************************************************************************)
(* Program constants.                                                      *)
(***************************************************************************)
max_attempts == 20
BlankSize == 512
WaitBase == 2
WaitCap == 15
InstrPreview == 50
default_safety_tolerance == 4
MinImages == 1
MaxImages == 5
max_wait_time == 300

Min(a, b) == IF a < b THEN a ELSE b

(***************************************************************************)
(* Inputs of one edit_image call.                                          *)
(***************************************************************************)
Chars == {" ", "x"}
Whitespace == {" "}

SeqsUpTo(S, n) == UNION {[1..k -> S] : k \in 0..n}

Instructions == SeqsUpTo(Chars, MaxInstrLen)
Seeds == {-1, 0, 7}
Models == {"flux-kontext-pro", "flux-kontext-max"}
XKeys == {"", "key"}

input_image == [src |-> "input", height |-> 64, width |-> 48]
NoImage == [src |-> "none", height |-> 0, width |-> 0]
DownloadedImage == [src |-> "download", height |-> 1024, width |-> 1024]

(* result is the status response of the attempt in progress (NoResponse
   between attempts); prevAllPending says that every earlier attempt of the
   loop was answered 200 with status Pending; posts, polls, downloads and
   slept count the requests issued and the time slept; failure and wfrExit
   name the return statement taken; status_response is the answer to the
   latest status GET (NoResponse before the first). *)
VARIABLES
    edit_instruction, seed, keep_original_on_fail, model, x_key,
    epc, payload, url, task_id, attempt, result, ret,
    posts, polls, downloads, slept, prevAllPending,
    response, img_response, failure, wfrExit, status_response

evars == <<edit_instruction, seed, keep_original_on_fail, model, x_key,
           epc, payload, url, task_id, attempt, result, ret,
           posts, polls, downloads, slept, prevAllPending,
           response, img_response, failure, wfrExit, status_response>>

(* probe is the outcome of the latest readiness probe ("" before the first),
   credentials the pair of AUTH_TOKEN_COMFY_ORG and API_KEY_COMFY_ORG that
   run_workflow read from the environment, history the answer to the latest
   history GET, launcher the position of the thread that runs
   start_comfyui_server *)
VARIABLES
    comfyui_started, job, hpc, files, workflow, prompt_payload, prompt_id,
    elapsed, hgets, hposts, hpolls, hret, hraised, probe, credentials, history,
    launcher

hvars == <<comfyui_started, job, hpc, files, workflow, prompt_payload,
           prompt_id, elapsed, hgets, hposts, hpolls, hret, hraised, probe,
           credentials, history, launcher>>

(* process_images of the experimental node: its arguments, its position, the
   list of collected images, the image and prompt handed to the API step,
   the returned pair, the number of submission POSTs and the exception
   caught by its except clause *)
VARIABLES
    prompt, number_of_images, combination_mode, force_fusion, flatten_images,
    resize_mode, gap_pixels, kwargs, xpc, collected, final_image,
    enhanced_prompt, xret, xposts, xcaught

xvars == <<prompt, number_of_images, combination_mode, force_fusion,
           flatten_images, resize_mode, gap_pixels, kwargs, xpc, collected,
           final_image, enhanced_prompt, xret, xposts, xcaught>>

(* ConfigLoader: the configuration file, os.environ, the position and the
   exception raised *)
VARIABLES
    config_exists, config, environ, cpc, craised

cvars == <<config_exists, config, environ, cpc, craised>>

vars == <<evars, hvars, xvars, cvars>>

(***************************************************************************)
(* str.strip(): drop leading and trailing whitespace.                      *)
(***************************************************************************)
RECURSIVE LStrip(_)
LStrip(s) ==
    IF s = <<>> THEN s
    ELSE IF Head(s) \in Whitespace THEN LStrip(Tail(s)) ELSE s

RECURSIVE RStrip(_)
RStrip(s) ==
    IF s = <<>> THEN s
    ELSE IF s[Len(s)] \in Whitespace THEN RStrip(SubSeq(s, 1, Len(s) - 1)) ELSE s

Strip(s) == RStrip(LStrip(s))

(* the test without strip() *)
InstructionEmpty_NoStrip(s) == s = <<>>

(* `not edit_instruction.strip()` *)
InstructionEmpty(s) == Strip(s) = <<>>

(* edit_instruction[:50] *)
Preview(s) == SubSeq(s, 1, Min(Len(s), InstrPreview))

(***************************************************************************)
(* Messages and returned pairs.                                            *)
(***************************************************************************)
Msg(ok, text, code, detail, instr) ==
    [ok |-> ok, text |-> text, code |-> code, detail |-> detail, instr |-> instr]

ErrMsg(text) == Msg(FALSE, text, 0, "", <<>>)

create_blank_image == [src |-> "blank", height |-> BlankSize, width |-> BlankSize]

(* the original image returned whatever the flag says *)
FailureReturn_IgnoreFlag(keep, msg) ==
    <<input_image, msg>>

(* the `if keep_original_on_fail: return (input_image, ...) else: ...` idiom *)
FailureReturn(keep, msg) ==
    <<IF keep THEN input_image ELSE create_blank_image, msg>>

NoRet == <<>>

(***************************************************************************)
(* The request payload, lines 172-183.                                     *)
(***************************************************************************)
(* `if seed:` in place of `if seed >= 0:` *)
SeedSpecified_Truthy(sd) == sd # 0

SeedSpecified(sd) == sd >= 0

BuildPayload(instr, b64, sd) ==
    LET base == ("prompt" :> instr) @@ ("input_image" :> b64)
                @@ ("aspect_ratio" :> "1:1")
                @@ ("safety_tolerance" :> default_safety_tolerance)
                @@ ("output_format" :> "png")
    IN IF SeedSpecified(sd) THEN base @@ ("seed" :> sd) ELSE base

NoPayload == [k \in {} |-> 0]

BaseUrl == "https://api.bfl.ai"

EndpointUrl(m) ==
    IF m = "flux-kontext-max" THEN <<BaseUrl, "/v1/flux-kontext-max">>
    ELSE <<BaseUrl, "/v1/flux-kontext-pro">>

(***************************************************************************)
(* Remote responses.                                                       *)
(***************************************************************************)
NoResponse == [raises |-> "", status_code |-> 0, json_ok |-> FALSE,
               id |-> "", status |-> "", sample |-> ""]

SubmitResponse(raises, code, json_ok, id) ==
    [raises |-> raises, status_code |-> code, json_ok |-> json_ok,
     id |-> id, status |-> "", sample |-> ""]

SubmitResponses ==
    {SubmitResponse(e, 0, FALSE, "") : e \in {"Timeout", "ConnectionError", "OtherError"}}
    \cup {SubmitResponse("", 200, j, i) : j \in BOOLEAN, i \in {"", "task-1"}}
    \cup {SubmitResponse("", c, TRUE, "") : c \in {400, 401, 402, 500, 503}}

Absent == "<absent>"

PollResponse(raises, code, json_ok, status, sample) ==
    [raises |-> raises, status_code |-> code, json_ok |-> json_ok,
     id |-> "", status |-> status, sample |-> sample]

PollResponses ==
    {PollResponse("Timeout", 0, FALSE, "", "")}
    \cup {PollResponse("", c, TRUE, "", "") : c \in {404, 500}}
    \cup {PollResponse("", 200, FALSE, "", "")}
    \cup {PollResponse("", 200, TRUE, s, "") :
              s \in {"Pending", "Error", "Request Moderated", Absent, "Ready"}}
    \cup {PollResponse("", 200, TRUE, "Ready", "https://cdn/sample.png")}

DownloadResponse(raises, code, decodable) ==
    [raises |-> raises, status_code |-> code, json_ok |-> decodable,
     id |-> "", status |-> "", sample |-> ""]

DownloadResponses ==
    {DownloadResponse("Timeout", 0, FALSE)}
    \cup {DownloadResponse("", 200, d) : d \in BOOLEAN}
    \cup {DownloadResponse("", c, FALSE) : c \in {403, 404}}

IsPending(r) ==
    r.raises = "" /\ r.status_code = 200 /\ r.json_ok /\ r.status = "Pending"

IsReadyWithUrl(r) ==
    r.raises = "" /\ r.status_code = 200 /\ r.json_ok /\ r.status = "Ready"
    /\ r.sample # ""

DownloadSucceeds(d) == d.raises = "" /\ d.status_code = 200 /\ d.json_ok

(***************************************************************************)
(* edit_image, lines 142-206: validation, conversion, payload, API key.    *)
(***************************************************************************)
Conversions == {"ok", "pil_none", "b64_none"}

EditInit ==
    /\ edit_instruction \in Instructions
    /\ seed \in Seeds
    /\ keep_original_on_fail \in BOOLEAN
    /\ model \in Models
    /\ x_key \in XKeys
    /\ epc = "call"
    /\ payload = NoPayload
    /\ url = <<>>
    /\ task_id = ""
    /\ attempt = 0
    /\ result = NoResponse
    /\ ret = NoRet
    /\ posts = 0
    /\ polls = 0
    /\ downloads = 0
    /\ slept = 0
    /\ prevAllPending = TRUE
    /\ response = NoResponse
    /\ img_response = NoResponse
    /\ failure = "none"
    /\ wfrExit = "none"
    /\ status_response = NoResponse

(* a return of edit_image on a failure path *)
EditFail(kind, msg) ==
    /\ epc' = "done"
    /\ failure' = kind
    /\ ret' = FailureReturn(keep_original_on_fail, msg)

edit_image_prepare ==
    /\ epc = "call"
    /\ \E conv \in Conversions :
         IF InstructionEmpty(edit_instruction)
         THEN /\ EditFail("empty_instruction", ErrMsg("Edit instruction cannot be empty"))
              /\ UNCHANGED <<payload, url>>
         ELSE IF conv = "pil_none"
         THEN /\ EditFail("convert", ErrMsg("Failed to convert input image"))
              /\ UNCHANGED <<payload, url>>
         ELSE IF conv = "b64_none"
         THEN /\ EditFail("encode", ErrMsg("Failed to encode image to base64"))
              /\ UNCHANGED <<payload, url>>
         ELSE /\ payload' = BuildPayload(edit_instruction, "base64-png", seed)
              /\ url' = EndpointUrl(model)
              /\ IF x_key = ""
                 THEN EditFail("no_key", ErrMsg("X_KEY not found. Check your config.ini"))
                 ELSE /\ epc' = "post"
                      /\ UNCHANGED <<failure, ret>>
    /\ UNCHANGED <<edit_instruction, seed, keep_original_on_fail, model, x_key,
                   task_id, attempt, result, posts, polls, downloads, slept,
                   prevAllPending, response, img_response, wfrExit,
                   status_response>>
    /\ UNCHANGED <<hvars, xvars, cvars>>

(***************************************************************************)
(* edit_image, lines 206-297: the submission POST and its classification.  *)
(***************************************************************************)
(* the 401 and 402 branches exchanged *)
HttpErrorMsg_Swapped(code) ==
    IF code = 400 THEN ErrMsg("Invalid request parameters")
    ELSE IF code = 402 THEN ErrMsg("Invalid API key")
    ELSE IF code = 401 THEN ErrMsg("Insufficient credits in BFL account")
    ELSE Msg(FALSE, "Server error: ", code, "", <<>>)

(* the message of lines 241-272 for a non-200 status code *)
HttpErrorMsg(code) ==
    IF code = 400 THEN ErrMsg("Invalid request parameters")
    ELSE IF code = 401 THEN ErrMsg("Invalid API key")
    ELSE IF code = 402 THEN ErrMsg("Insufficient credits in BFL account")
    ELSE Msg(FALSE, "Server error: ", code, "", <<>>)

HttpErrorKind(code) ==
    IF code = 400 THEN "http400"
    ELSE IF code = 401 THEN "http401"
    ELSE IF code = 402 THEN "http402"
    ELSE "http_other"

(* the except clauses of lines 274-297 *)
ExceptionMsg(e) ==
    IF e = "Timeout" THEN ErrMsg("Request timeout - try again")
    ELSE IF e = "ConnectionError" THEN ErrMsg("Connection error - check internet")
    ELSE Msg(FALSE, "Unexpected error: ", 0, e, <<>>)

ExceptionKind(e) ==
    IF e = "Timeout" THEN "timeout_exception"
    ELSE IF e = "ConnectionError" THEN "connection_exception"
    ELSE "other_exception"

(* the `if not task_id` check left out *)
SubmitAccepted_NoIdCheck(r) ==
    r.raises = "" /\ r.status_code = 200 /\ r.json_ok

(* `response.status_code == 200` and a truthy task id: polling may start *)
SubmitAccepted(r) ==
    r.raises = "" /\ r.status_code = 200 /\ r.json_ok /\ r.id # ""

(* range(1, max_attempts) *)
HasAttempt_OffByOne(a) == a < max_attempts

(* range(1, max_attempts + 1): is attempt a within the loop's range *)
HasAttempt(a) == a <= max_attempts

(* the attempts counted from 0 *)
WaitTime_FromZero(a) == Min(WaitBase + a - 1, WaitCap)

(* the wait without its cap *)
WaitTime_Uncapped(a) == WaitBase + a

(* the wait of attempt a, line 382 *)
WaitTime(a) == Min(WaitBase + a, WaitCap)

(* every None reported as a timeout *)
ResultMessage_Timeout(result_image) ==
    IF result_image # NoImage
    THEN Msg(TRUE, " edit complete: ", 0, model, Preview(edit_instruction))
    ELSE ErrMsg("Request timeout - try again")

(* lines 228-238: what edit_image makes of wait_for_result's return value *)
ResultMessage(result_image) ==
    IF result_image # NoImage
    THEN Msg(TRUE, " edit complete: ", 0, model, Preview(edit_instruction))
    ELSE ErrMsg("Failed to generate edited image")

(* the value wait_for_result returns at each of its return statements *)
WfrReturnValue(exit) == IF exit = "ready" THEN DownloadedImage ELSE NoImage

(* wait_for_result returns result_image by the exit named exit, and
   edit_image returns in turn *)
WaitReturns(exit, result_image) ==
    /\ wfrExit' = exit
    /\ epc' = "done"
    /\ IF result_image # NoImage
       THEN /\ ret' = <<result_image, ResultMessage(result_image)>>
            /\ failure' = "none"
       ELSE /\ ret' = FailureReturn(keep_original_on_fail, ResultMessage(result_image))
            /\ failure' = exit

(* the for loop moves to attempt a, or falls out of the loop (lines 442-443) *)
LoopTo(a) ==
    IF HasAttempt(a)
    THEN /\ attempt' = a
         /\ epc' = "sleep"
         /\ UNCHANGED <<ret, failure, wfrExit>>
    ELSE /\ attempt' = attempt
         /\ WaitReturns("timeout", WfrReturnValue("timeout"))

edit_image_post ==
    /\ epc = "post"
    /\ posts' = posts + 1
    /\ \E r \in SubmitResponses :
         /\ response' = r
         /\ IF r.raises # ""
            THEN /\ EditFail(ExceptionKind(r.raises), ExceptionMsg(r.raises))
                 /\ UNCHANGED <<task_id, attempt, wfrExit>>
            ELSE IF r.status_code = 200
            THEN IF ~r.json_ok
                 THEN /\ EditFail("other_exception", ExceptionMsg("JSONDecodeError"))
                      /\ UNCHANGED <<task_id, attempt, wfrExit>>
                 ELSE /\ task_id' = r.id
                      /\ IF ~SubmitAccepted(r)
                         THEN /\ EditFail("no_task_id", ErrMsg("No task ID received from server"))
                              /\ UNCHANGED <<attempt, wfrExit>>
                         ELSE LoopTo(1)
            ELSE /\ EditFail(HttpErrorKind(r.status_code), HttpErrorMsg(r.status_code))
                 /\ UNCHANGED <<task_id, attempt, wfrExit>>
    /\ UNCHANGED <<edit_instruction, seed, keep_original_on_fail, model, x_key,
                   payload, url, result, polls, downloads, slept,
                   prevAllPending, img_response, status_response>>
    /\ UNCHANGED <<hvars, xvars, cvars>>

(***************************************************************************)
(* wait_for_result, lines 379-443.                                         *)
(***************************************************************************)
wait_for_result_sleep ==
    /\ epc = "sleep"
    /\ slept' = slept + WaitTime(attempt)
    /\ epc' = "poll"
    /\ UNCHANGED <<edit_instruction, seed, keep_original_on_fail, model, x_key,
                   payload, url, task_id, attempt, result, ret, posts, polls,
                   downloads, prevAllPending, response, img_response, failure,
                   wfrExit, status_response>>
    /\ UNCHANGED <<hvars, xvars, cvars>>

(* result.get("status", "Unknown") *)
StatusOf(r) == IF r.status = Absent THEN "Unknown" ELSE r.status

(* an unrecognized status taken for a failure of the task *)
PollVerdict_UnknownFails(r) ==
    IF r.raises # "" THEN "continue"
    ELSE IF r.status_code # 200 THEN "continue"
    ELSE IF ~r.json_ok THEN "continue"
    ELSE IF StatusOf(r) = "Ready"
         THEN IF r.sample = "" THEN "no_sample" ELSE "download"
    ELSE IF StatusOf(r) = "Pending" THEN "continue"
    ELSE "error_status"

(* a Ready answer downloaded whether or not it names a sample *)
PollVerdict_DownloadWithoutUrl(r) ==
    IF r.raises # "" THEN "continue"
    ELSE IF r.status_code # 200 THEN "continue"
    ELSE IF ~r.json_ok THEN "continue"
    ELSE IF StatusOf(r) = "Ready" THEN "download"
    ELSE IF StatusOf(r) = "Pending" THEN "continue"
    ELSE IF StatusOf(r) = "Error" THEN "error_status"
    ELSE "continue"

(* what one status response leads to, lines 392-436 *)
PollVerdict(r) ==
    IF r.raises # "" THEN "continue"
    ELSE IF r.status_code # 200 THEN "continue"
    ELSE IF ~r.json_ok THEN "continue"
    ELSE IF StatusOf(r) = "Ready"
         THEN IF r.sample = "" THEN "no_sample" ELSE "download"
    ELSE IF StatusOf(r) = "Pending" THEN "continue"
    ELSE IF StatusOf(r) = "Error" THEN "error_status"
    ELSE "continue"

(* the attempt ends with `continue`; the response in hand is dropped *)
Continue(r) ==
    /\ prevAllPending' = (prevAllPending /\ IsPending(r))
    /\ result' = NoResponse
    /\ LoopTo(attempt + 1)

wait_for_result_poll ==
    /\ epc = "poll"
    /\ polls' = polls + 1
    /\ \E r \in PollResponses :
         LET v == PollVerdict(r) IN
         /\ status_response' = r
         /\ IF v = "continue" THEN Continue(r)
            ELSE IF v = "download"
            THEN /\ result' = r
                 /\ epc' = "download"
                 /\ UNCHANGED <<attempt, prevAllPending, ret, failure, wfrExit>>
            ELSE /\ result' = r
                 /\ WaitReturns(v, WfrReturnValue(v))
                 /\ UNCHANGED <<attempt, prevAllPending>>
    /\ UNCHANGED <<edit_instruction, seed, keep_original_on_fail, model, x_key,
                   payload, url, task_id, posts, downloads, slept, response,
                   img_response>>
    /\ UNCHANGED <<hvars, xvars, cvars>>

(* a refused download retried at the next attempt *)
DownloadVerdict_RetryRefused(d) ==
    IF d.raises # "" THEN "continue"
    ELSE IF d.status_code # 200 THEN "continue"
    ELSE IF ~d.json_ok THEN "continue"
    ELSE "ready"

(* what the download leads to, lines 409-424 and the except of line 438 *)
DownloadVerdict(d) ==
    IF d.raises # "" THEN "continue"
    ELSE IF d.status_code # 200 THEN "download_failed"
    ELSE IF ~d.json_ok THEN "continue"
    ELSE "ready"

wait_for_result_download ==
    /\ epc = "download"
    /\ downloads' = downloads + 1
    /\ \E d \in DownloadResponses :
         LET v == DownloadVerdict(d) IN
         /\ img_response' = d
         /\ IF v = "continue" THEN Continue(result)
            ELSE /\ WaitReturns(v, WfrReturnValue(v))
                 /\ UNCHANGED <<attempt, prevAllPending, result>>
    /\ UNCHANGED <<edit_instruction, seed, keep_original_on_fail, model, x_key,
                   payload, url, task_id, posts, polls, slept, response,
                   status_response>>
    /\ UNCHANGED <<hvars, xvars, cvars>>

EditNext ==
    \/ edit_image_prepare
    \/ edit_image_post
    \/ wait_for_result_sleep
    \/ wait_for_result_poll
    \/ wait_for_result_download

(* the edit client at rest, for the specifications of the job handler *)
EditQuiet ==
    /\ edit_instruction = <<>>
    /\ seed = -1
    /\ keep_original_on_fail = TRUE
    /\ model = "flux-kontext-pro"
    /\ x_key = ""
    /\ epc = "idle"
    /\ payload = NoPayload
    /\ url = <<>>
    /\ task_id = ""
    /\ attempt = 0
    /\ result = NoResponse
    /\ ret = NoRet
    /\ posts = 0
    /\ polls = 0
    /\ downloads = 0
    /\ slept = 0
    /\ prevAllPending = TRUE
    /\ response = NoResponse
    /\ img_response = NoResponse
    /\ failure = "none"
    /\ wfrExit = "none"
    /\ status_response = NoResponse

(***************************************************************************)
(* handler.py: dictionaries, strings and the job.                          *)
(***************************************************************************)
EmptyDict == [k \in {} |-> <<>>]

(* d[k] = v *)
Put(d, k, v) == [x \in (DOMAIN d) \cup {k} |-> IF x = k THEN v ELSE d[x]]

(* d.get(k, default) *)
Get(d, k, default) == IF k \in DOMAIN d THEN d[k] ELSE default

None == <<>>

Digits == <<"0", "1", "2", "3", "4", "5", "6", "7", "8", "9">>

(* str(n) for n >= 0, as the sequence of its decimal digits *)
RECURSIVE Str(_)
Str(n) ==
    IF n < 10 THEN <<Digits[n + 1]>>
    ELSE Str(n \div 10) \o <<Digits[(n % 10) + 1]>>

(* an input value of a node: a [node-id, output-index] list or a scalar *)
Ref(id, idx) == [list |-> TRUE, node |-> id, index |-> idx, value |-> <<>>]
Val(v) == [list |-> FALSE, node |-> <<>>, index |-> 0, value |-> v]

Node(class_type, inputs) == [class_type |-> class_type, inputs |-> inputs]

(* the entries of job['input']['images'] *)
ImageEntries ==
    { ("name" :> <<"a.png">>) @@ ("image" :> <<"QUJD">>),
      ("name" :> <<"b.png">>) @@ ("image" :> <<"data:image/png;base64", ",", "QUJD">>),
      ("image" :> <<"QUJD">>) }

(* job['input']['images']: every list of up to ShortLists entries, and the
   longer lists of a.png entries that end with any entry *)
ImageLists ==
    SeqsUpTo(ImageEntries, ShortLists)
    \cup { [i \in 1..k |-> IF i = k THEN e
                           ELSE ("name" :> <<"a.png">>) @@ ("image" :> <<"QUJD">>)] :
             k \in (ShortLists + 1)..MaxJobImages, e \in ImageEntries }

JobParams ==
    { EmptyDict,
      ("prompt" :> <<"make it red">>) @@ ("aspect_ratio" :> <<"1:1">>)
        @@ ("steps" :> <<"30">>) @@ ("seed" :> <<"7">>)
        @@ ("guidance" :> <<"2.5">>) @@ ("prompt_upsampling" :> <<"True">>) }

JobInputs ==
    JobParams \cup {Put(p, "images", l) : p \in JobParams, l \in ImageLists}

Jobs == {("id" :> <<"job-1">>)}
        \cup {("id" :> <<"job-1">>) @@ ("input" :> i) : i \in JobInputs}

NoJob == EmptyDict

(***************************************************************************)
(* build_workflow, handler.py lines 51-142.                                *)
(***************************************************************************)
LoadNode(i) ==
    Node("LoadImage", "image" :> Val(<<"image_">> \o Str(i + 1) \o <<".png">>))

(* for i in range(num_images), from i on *)
RECURSIVE LoadLoop(_, _, _)
LoadLoop(st, i, num_images) ==
    IF i >= num_images THEN st
    ELSE LoadLoop([workflow |-> Put(st.workflow, Str(10 + i), LoadNode(i)),
                   load_node_ids |-> Append(st.load_node_ids, Str(10 + i))],
                  i + 1, num_images)

(* the two image inputs exchanged *)
StitchNode_Swapped(a, b) ==
    Node("ImageStitch",
         ("image1" :> Ref(b, 0)) @@ ("image2" :> Ref(a, 0))
         @@ ("direction" :> Val(<<"right">>))
         @@ ("match_image_size" :> Val(<<"True">>))
         @@ ("spacing_width" :> Val(<<"0">>))
         @@ ("spacing_color" :> Val(<<"white">>)))

StitchNode(a, b) ==
    Node("ImageStitch",
         ("image1" :> Ref(a, 0)) @@ ("image2" :> Ref(b, 0))
         @@ ("direction" :> Val(<<"right">>))
         @@ ("match_image_size" :> Val(<<"True">>))
         @@ ("spacing_width" :> Val(<<"0">>))
         @@ ("spacing_color" :> Val(<<"white">>)))

(* an id that repeats the id of the first stitch node *)
ChainStitchId_Collides(i) == Str(20 + i - 2)

(* stitch_node_id = str(20 + i - 1) *)
ChainStitchId(i) == Str(20 + i - 1)

(* for i in range(2, num_images), from i on; load_node_ids[i] is 0-indexed *)
RECURSIVE ChainLoop(_, _, _, _)
ChainLoop(st, load_node_ids, i, num_images) ==
    IF i >= num_images THEN st
    ELSE ChainLoop(
           [workflow |-> Put(st.workflow, ChainStitchId(i),
                             StitchNode(st.last_stitch_node_id, load_node_ids[i + 1])),
            last_stitch_node_id |-> ChainStitchId(i)],
           load_node_ids, i + 1, num_images)

BflNode(bfl_input_node_id) ==
    Node("FluxKontextProImageNode",
         ("prompt" :> Val(<<"Default prompt">>))
         @@ ("prompt_upsampling" :> Val(<<"False">>))
         @@ ("guidance" :> Val(<<"3.0">>))
         @@ ("aspect_ratio" :> Val(<<"16:9">>))
         @@ ("steps" :> Val(<<"50">>))
         @@ ("seed" :> Val(<<"1234">>))
         @@ ("input_image" :> Ref(bfl_input_node_id, 0)))

SaveNode ==
    Node("SaveImage",
         ("filename_prefix" :> Val(<<"Final_Output">>))
         @@ ("images" :> Ref(<<"3", "0">>, 0)))

build_workflow(num_images) ==
    LET loads == LoadLoop([workflow |-> EmptyDict, load_node_ids |-> <<>>],
                          0, num_images)
        ids == loads.load_node_ids
        stitched ==
            IF num_images >= 2
            THEN ChainLoop([workflow |-> Put(loads.workflow, <<"2", "0">>,
                                             StitchNode(ids[1], ids[2])),
                            last_stitch_node_id |-> <<"2", "0">>],
                           ids, 2, num_images)
            ELSE [workflow |-> loads.workflow, last_stitch_node_id |-> <<>>]
        bfl_input_node_id ==
            IF num_images = 1 THEN ids[1] ELSE stitched.last_stitch_node_id
    IN Put(Put(stitched.workflow, <<"3", "0">>, BflNode(bfl_input_node_id)),
           <<"3", "1">>, SaveNode)

(***************************************************************************)
(* validate_workflow, handler.py lines 145-180.                            *)
(***************************************************************************)
required_classes == {"LoadImage", "FluxKontextProImageNode", "SaveImage"}

validate_workflow(wf) ==
    /\ \A node_id \in DOMAIN wf :
         /\ "inputs" \in DOMAIN wf[node_id]
         /\ \A input_name \in DOMAIN wf[node_id].inputs :
              wf[node_id].inputs[input_name].list
                 => wf[node_id].inputs[input_name].node \in DOMAIN wf
    /\ required_classes \subseteq {wf[node_id].class_type : node_id \in DOMAIN wf}

(***************************************************************************)
(* prepare_inputs, handler.py lines 304-312.                               *)
(***************************************************************************)
(* the position of the first "," of b64_img, 0 if there is none *)
RECURSIVE FirstComma(_, _)
FirstComma(b, i) ==
    IF i > Len(b) THEN 0
    ELSE IF b[i] = "," THEN i ELSE FirstComma(b, i + 1)

(* if ',' in b64_img: b64_img = b64_img.split(',', 1)[1] *)
StripDataUrl(b) ==
    IF FirstComma(b, 1) = 0 THEN b ELSE SubSeq(b, FirstComma(b, 1) + 1, Len(b))

(* base64.b64decode(b64_img): the bytes that the text encodes *)
b64decode(b) == [bytes_of |-> b]

(* for image_data in images, from position i on *)
RECURSIVE prepare_inputs(_, _, _)
prepare_inputs(fs, images, i) ==
    IF i > Len(images) THEN fs
    ELSE LET name == Get(images[i], "name", None)
             b64_img == Get(images[i], "image", None)
         IN IF name = None \/ b64_img = None
            THEN prepare_inputs(fs, images, i + 1)
            ELSE prepare_inputs(Put(fs, name, b64decode(StripDataUrl(b64_img))),
                                images, i + 1)

(***************************************************************************)
(* The result mapping of handler and run_workflow.                         *)
(***************************************************************************)
HErr(text, num, detail, nodes) ==
    "error" :> [text |-> text, num |-> num, detail |-> detail, nodes |-> nodes]

HError(text) == HErr(text, 0, "", {})

HImages(images_output) == "images" :> images_output

NoResult == [k \in {} |-> 0]

(* os.environ.get of a variable that is not set, and of one set to '' *)
Unset == <<>>
Blank == <<"">>

(* no history GET was answered yet *)
NoHistory == [raises |-> "", status_code |-> 0, has_entry |-> FALSE,
              status_str |-> "", outputs |-> <<>>]

(***************************************************************************)
(* wait_for_server_ready, handler.py lines 255-262.                        *)
(***************************************************************************)
HandlerInit ==
    /\ comfyui_started = FALSE
    /\ job = NoJob
    /\ hpc = "idle"
    /\ files = EmptyDict
    /\ workflow = EmptyDict
    /\ prompt_payload = EmptyDict
    /\ prompt_id = ""
    /\ elapsed = 0
    /\ hgets = 0
    /\ hposts = 0
    /\ hpolls = 0
    /\ hret = NoResult
    /\ hraised = ""
    /\ probe = ""
    /\ credentials = <<Unset, Unset>>
    /\ history = NoHistory
    /\ launcher = "launched"

(* the job handler switched off, for the specifications of the edit client *)
HandlerQuiet ==
    /\ comfyui_started = FALSE
    /\ job = NoJob
    /\ hpc = "off"
    /\ files = EmptyDict
    /\ workflow = EmptyDict
    /\ prompt_payload = EmptyDict
    /\ prompt_id = ""
    /\ elapsed = 0
    /\ hgets = 0
    /\ hposts = 0
    /\ hpolls = 0
    /\ hret = NoResult
    /\ hraised = ""
    /\ probe = ""
    /\ credentials = <<Unset, Unset>>
    /\ history = NoHistory
    /\ launcher = "launched"

ProbeResponses == {"raises", "200", "404", "500"}

(* nothing listens on the port before start_comfyui_server has launched the
   server: the GET raises *)
ProbeOutcomes(thread) == IF thread = "launched" THEN ProbeResponses ELSE {"raises"}

(* any answered probe taken for readiness *)
ProbeAccepted_AnyStatus(r) == r # "raises"

(* `.status_code in [200, 404]` *)
ProbeAccepted(r) == r \in {"200", "404"}

(* one iteration of `while not comfyui_started` *)
wait_for_server_ready ==
    /\ hpc # "off"
    /\ ~comfyui_started
    /\ \E r \in ProbeOutcomes(launcher) :
         /\ probe' = r
         /\ comfyui_started' = ProbeAccepted(r)
    /\ UNCHANGED <<job, hpc, files, workflow, prompt_payload, prompt_id,
                   elapsed, hgets, hposts, hpolls, hret, hraised>>
    /\ UNCHANGED <<credentials, history, launcher, evars, xvars, cvars>>

(***************************************************************************)
(* handler, handler.py lines 450-502.                                      *)
(***************************************************************************)
HandlerReturns(r) ==
    /\ hret' = r
    /\ hpc' = "returned"
    /\ hraised' = ""

HandlerRaises(e) ==
    /\ hret' = NoResult
    /\ hpc' = "raised"
    /\ hraised' = e

(* lines 450-454: the job j arrives and the ready flag is read *)
handler_receives(j) ==
    /\ hpc = "idle"
    /\ job' = j
    /\ IF ~comfyui_started
       THEN HandlerReturns(HError("ComfyUI server is not ready."))
       ELSE /\ hpc' = "health"
            /\ UNCHANGED <<hret, hraised>>
    /\ UNCHANGED <<comfyui_started, files, workflow, prompt_payload, prompt_id,
                   elapsed, hgets, hposts, hpolls>>
    /\ UNCHANGED <<probe, launcher, credentials, history, evars, xvars, cvars>>

handler_enter == \E j \in Jobs : handler_receives(j)

required_nodes == {"LoadImage", "FluxKontextProImageNode", "SaveImage", "ImageStitch"}

(* the outcomes of check_server_health, lines 264-302:
   <<server_healthy, missing_nodes, number of GETs>> *)
HealthOutcomes ==
    {<<FALSE, {}, 1>>}
    \cup {<<TRUE, {}, 2>>}
    \cup {<<TRUE, required_nodes \ object_info, 2>> :
             object_info \in {required_nodes, required_nodes \ {"ImageStitch"},
                              {"LoadImage", "SaveImage"}}}

(* one image more than the limit let through *)
ImageCountValid_OneMore(num_images) ==
    MinImages <= num_images /\ num_images <= MaxImages + 1

(* `1 <= num_images <= 5` *)
ImageCountValid(num_images) == MinImages <= num_images /\ num_images <= MaxImages

(* lines 456-473: health check, then the number of images *)
handler_check ==
    /\ hpc = "health"
    /\ \E h \in HealthOutcomes :
         /\ hgets' = hgets + h[3]
         /\ IF ~h[1]
            THEN HandlerReturns(HError("ComfyUI server is not responding properly"))
            ELSE IF h[2] # {}
            THEN HandlerReturns(HErr("Required ComfyUI nodes are not available: ",
                                     0, "", h[2]))
            ELSE IF "input" \notin DOMAIN job
            THEN HandlerRaises("KeyError: 'input'")
            ELSE LET images == Get(job["input"], "images", <<>>)
                     num_images == Len(images)
                 IN IF ~ImageCountValid(num_images)
                    THEN HandlerReturns(
                           HErr("This endpoint requires 1 to 5 images, but N were provided.",
                                num_images, "", {}))
                    ELSE /\ hpc' = "prepare"
                         /\ UNCHANGED <<hret, hraised>>
    /\ UNCHANGED <<comfyui_started, job, files, workflow, prompt_payload,
                   prompt_id, elapsed, hposts, hpolls>>
    /\ UNCHANGED <<probe, launcher, credentials, history, evars, xvars, cvars>>

(* line 476 *)
handler_prepare ==
    /\ hpc = "prepare"
    /\ files' = prepare_inputs(files, job["input"]["images"], 1)
    /\ hpc' = "build"
    /\ UNCHANGED <<comfyui_started, job, workflow, prompt_payload, prompt_id,
                   elapsed, hgets, hposts, hpolls, hret, hraised>>
    /\ UNCHANGED <<probe, launcher, credentials, history, evars, xvars, cvars>>

(* line 479 *)
handler_build ==
    /\ hpc = "build"
    /\ workflow' = build_workflow(Len(job["input"]["images"]))
    /\ hpc' = "configure"
    /\ UNCHANGED <<comfyui_started, job, files, prompt_payload, prompt_id,
                   elapsed, hgets, hposts, hpolls, hret, hraised>>
    /\ UNCHANGED <<probe, launcher, credentials, history, evars, xvars, cvars>>

(* lines 481-482, from i on (0-indexed): the load nodes take the job's names;
   images[i]["name"] of an entry without the key raises KeyError *)
RECURSIVE SetNames(_, _, _)
SetNames(wf, images, i) ==
    IF i >= Len(images) THEN [workflow |-> wf, raised |-> ""]
    ELSE IF "name" \notin DOMAIN images[i + 1]
    THEN [workflow |-> wf, raised |-> "KeyError: 'name'"]
    ELSE SetNames(
           Put(wf, Str(10 + i),
               Node(wf[Str(10 + i)].class_type,
                    Put(wf[Str(10 + i)].inputs, "image", Val(images[i + 1]["name"])))),
           images, i + 1)

(* lines 484-492 *)
SetApiNode(wf, job_input) ==
    LET api_node == wf[<<"3", "0">>].inputs
        a1 == Put(api_node, "prompt", Val(Get(job_input, "prompt", <<"Default prompt">>)))
        a2 == Put(a1, "aspect_ratio", Val(Get(job_input, "aspect_ratio", <<"16:9">>)))
        a3 == Put(a2, "steps", Val(Get(job_input, "steps", <<"50">>)))
        a4 == Put(a3, "seed", Val(Get(job_input, "seed", <<"1234">>)))
        a5 == Put(a4, "guidance", Val(Get(job_input, "guidance", <<"3.0">>)))
        a6 == Put(a5, "prompt_upsampling",
                  Val(Get(job_input, "prompt_upsampling", <<"False">>)))
    IN Put(wf, <<"3", "0">>, Node(wf[<<"3", "0">>].class_type, a6))

handler_configure ==
    /\ hpc = "configure"
    /\ LET named == SetNames(workflow, job["input"]["images"], 0) IN
         IF named.raised # ""
         THEN /\ workflow' = named.workflow
              /\ HandlerRaises(named.raised)
         ELSE /\ workflow' = SetApiNode(named.workflow, job["input"])
              /\ hpc' = "run"
              /\ UNCHANGED <<hret, hraised>>
    /\ UNCHANGED <<comfyui_started, job, files, prompt_payload, prompt_id,
                   elapsed, hgets, hposts, hpolls>>
    /\ UNCHANGED <<probe, launcher, credentials, history, evars, xvars, cvars>>

(***************************************************************************)
(* run_workflow, handler.py lines 324-447.                                 *)
(***************************************************************************)
(* `if value:` for what os.environ.get returned *)
Truthy(value) == value # Unset /\ value # Blank

AuthTokens == {Unset, Blank, <<"token">>}
ApiKeys == {Unset, Blank, <<"comfyui-", "key">>, <<"bfl-key">>}

(* the bearer token preferred to the API key *)
ExtraData_TokenFirst(auth_token, api_key) ==
    LET e1 == IF Truthy(auth_token)
              THEN Put(EmptyDict, "comfy_api_key", auth_token)
              ELSE IF Truthy(api_key)
              THEN Put(EmptyDict, "comfy_api_key", api_key)
              ELSE EmptyDict
    IN IF Truthy(api_key) THEN Put(e1, "api_key_comfy_org", api_key) ELSE e1

(* lines 330-363 *)
ExtraData(auth_token, api_key) ==
    LET e1 == IF Truthy(api_key) /\ Head(api_key) = "comfyui-"
              THEN Put(EmptyDict, "comfy_api_key", api_key)
              ELSE IF Truthy(api_key)
              THEN Put(EmptyDict, "comfy_api_key", api_key)
              ELSE IF Truthy(auth_token)
              THEN Put(EmptyDict, "comfy_api_key", auth_token)
              ELSE EmptyDict
    IN IF Truthy(api_key) THEN Put(e1, "api_key_comfy_org", api_key) ELSE e1

(* lines 381-383 *)
PromptPayload(wf, extra_data) ==
    LET base == ("prompt" :> wf) @@ ("client_id" :> <<"uuid4">>)
    IN IF extra_data # EmptyDict THEN base @@ ("extra_data" :> extra_data) ELSE base

(* req.raise_for_status() raises for the 4xx and 5xx codes *)
RaiseForStatus(code) == code >= 400

PromptResponses ==
    { [raises |-> e, status_code |-> c, prompt_id |-> i] :
        e \in {""}, c \in {200, 400, 500}, i \in {"", "p-1"} }
    \cup { [raises |-> "ConnectionError", status_code |-> 0, prompt_id |-> ""] }

(* lines 326-410: validation, credentials, the POST of the prompt *)
run_workflow_post ==
    /\ hpc = "run"
    /\ IF ~validate_workflow(workflow)
       THEN /\ HandlerReturns(HError("Workflow validation failed - check logs for details"))
            /\ UNCHANGED <<prompt_payload, prompt_id, hposts, credentials>>
       ELSE \E auth_token \in AuthTokens, api_key \in ApiKeys, r \in PromptResponses :
              /\ credentials' = <<auth_token, api_key>>
              /\ prompt_payload' = PromptPayload(workflow, ExtraData(auth_token, api_key))
              /\ hposts' = hposts + 1
              /\ IF r.raises # ""
                 THEN /\ HandlerReturns(HErr("Workflow execution failed: ", 0, r.raises, {}))
                      /\ UNCHANGED prompt_id
                 ELSE IF r.status_code = 400
                 THEN /\ HandlerReturns(HErr("ComfyUI workflow validation failed: ",
                                             0, "req.text", {}))
                      /\ UNCHANGED prompt_id
                 ELSE IF RaiseForStatus(r.status_code)
                 THEN /\ HandlerReturns(HErr("Workflow execution failed: ", 0, "HTTPError", {}))
                      /\ UNCHANGED prompt_id
                 ELSE IF r.prompt_id = ""
                 THEN /\ HandlerReturns(HErr("Workflow execution failed: ",
                                             0, "KeyError: 'prompt_id'", {}))
                      /\ UNCHANGED prompt_id
                 ELSE /\ prompt_id' = r.prompt_id
                      /\ hpc' = "wait"
                      /\ UNCHANGED <<hret, hraised>>
    /\ elapsed' = 0
    /\ UNCHANGED <<comfyui_started, job, files, workflow, hgets, hpolls>>
    /\ UNCHANGED <<probe, launcher, history, evars, xvars, cvars>>

(* the time one history GET takes, in half seconds: none, or so long that
   two GETs and two pauses take 300 s to the tick *)
GetDurations == {0, 299}

SleepHalfSeconds == 1

OutputImage(filename, readable) == [filename |-> filename, readable |-> readable]

HistoryResponse(raises, code, has_entry, status_str, outputs) ==
    [raises |-> raises, status_code |-> code, has_entry |-> has_entry,
     status_str |-> status_str, outputs |-> outputs]

HistoryResponses ==
    { HistoryResponse("ConnectionError", 0, FALSE, "", <<>>),
      HistoryResponse("JSONDecodeError", 200, FALSE, "", <<>>),
      HistoryResponse("", 500, FALSE, "", <<>>),
      HistoryResponse("", 200, FALSE, "", <<>>),
      HistoryResponse("", 200, TRUE, "success", <<>>),
      HistoryResponse("", 200, TRUE, "error", <<>>),
      HistoryResponse("", 200, TRUE, "error", <<OutputImage("Final_Output_00001_.png", TRUE)>>),
      HistoryResponse("", 200, TRUE, "success", <<OutputImage("Final_Output_00001_.png", TRUE)>>),
      HistoryResponse("", 200, TRUE, "success", <<OutputImage("Final_Output_00001_.png", FALSE)>>) }

(* lines 436-441; get_image_data returns None for a file it cannot read *)
RECURSIVE ImagesOutput(_, _)
ImagesOutput(outputs, i) ==
    IF i > Len(outputs) THEN <<>>
    ELSE IF outputs[i].readable
    THEN <<[filename |-> outputs[i].filename, data |-> "data:image/png;base64,..."]>>
         \o ImagesOutput(outputs, i + 1)
    ELSE ImagesOutput(outputs, i + 1)

(* the limit reached is the limit passed *)
TimedOut_NotStrict(t) == t >= 2 * max_wait_time

(* line 418, with the clock in half seconds *)
TimedOut(t) == t > 2 * max_wait_time

(* the outputs looked at before the status *)
HistoryVerdict_OutputsFirst(res) ==
    IF res.raises # "" THEN "raised"
    ELSE IF res.status_code = 200 /\ res.has_entry /\ res.outputs # <<>>
    THEN "images"
    ELSE IF res.status_code = 200 /\ res.has_entry /\ res.status_str = "error"
    THEN "failed"
    ELSE "sleep"

(* lines 421-444: what the answer to one history GET leads to; an exception
   of the GET or of res.json() goes to the except clause of line 445 *)
HistoryVerdict(res) ==
    IF res.raises # "" THEN "raised"
    ELSE IF res.status_code = 200 /\ res.has_entry /\ res.status_str = "error"
    THEN "failed"
    ELSE IF res.status_code = 200 /\ res.has_entry /\ res.outputs # <<>>
    THEN "images"
    ELSE "sleep"

(* lines 416-444: one iteration of the wait loop *)
run_workflow_wait ==
    /\ hpc = "wait"
    /\ IF TimedOut(elapsed)
       THEN /\ HandlerReturns(HError("Workflow execution timed out after 5 minutes"))
            /\ UNCHANGED <<elapsed, hgets, hpolls, history>>
       ELSE /\ hpolls < MaxHistoryPolls
            /\ hgets' = hgets + 1
            /\ hpolls' = hpolls + 1
            /\ \E res \in HistoryResponses, d \in GetDurations :
                 LET v == HistoryVerdict(res) IN
                 /\ history' = res
                 /\ IF v = "raised"
                    THEN /\ HandlerReturns(HErr("Workflow execution failed: ", 0, res.raises, {}))
                         /\ elapsed' = elapsed + d
                    ELSE IF v = "failed"
                    THEN /\ HandlerReturns(HErr("Workflow failed: ", 0, "messages", {}))
                         /\ elapsed' = elapsed + d
                    ELSE IF v = "images"
                    THEN /\ HandlerReturns(HImages(ImagesOutput(res.outputs, 1)))
                         /\ elapsed' = elapsed + d
                    ELSE /\ elapsed' = elapsed + d + SleepHalfSeconds
                         /\ UNCHANGED <<hpc, hret, hraised>>
    /\ UNCHANGED <<comfyui_started, job, files, workflow, prompt_payload,
                   prompt_id, hposts>>
    /\ UNCHANGED <<probe, launcher, credentials, evars, xvars, cvars>>

HandlerNext ==
    \/ wait_for_server_ready
    \/ handler_enter
    \/ handler_check
    \/ handler_prepare
    \/ handler_build
    \/ handler_configure
    \/ run_workflow_post
    \/ run_workflow_wait

(***************************************************************************)
(* The main flow, handler.py lines 504-507: the thread that launches the   *)
(* server, the readiness loop and the registration of the handler, run by  *)
(* the main thread.  hpc is "main" before the thread is started, "waiting" *)
(* in wait_for_server_ready and "idle" once the handler is registered.     *)
(***************************************************************************)
MainInit ==
    /\ comfyui_started = FALSE
    /\ job = NoJob
    /\ hpc = "main"
    /\ files = EmptyDict
    /\ workflow = EmptyDict
    /\ prompt_payload = EmptyDict
    /\ prompt_id = ""
    /\ elapsed = 0
    /\ hgets = 0
    /\ hposts = 0
    /\ hpolls = 0
    /\ hret = NoResult
    /\ hraised = ""
    /\ probe = ""
    /\ credentials = <<Unset, Unset>>
    /\ history = NoHistory
    /\ launcher = "unstarted"

mfixed == <<job, files, workflow, prompt_payload, prompt_id, elapsed, hgets,
            hposts, hpolls, hret, hraised, credentials, history>>

(* line 505: server_thread.start() *)
main_start_thread ==
    /\ hpc = "main"
    /\ hpc' = "waiting"
    /\ launcher' = "running"
    /\ UNCHANGED <<comfyui_started, probe, mfixed>>
    /\ UNCHANGED <<evars, xvars, cvars>>

(* lines 182-253, in the daemon thread: the environment, the verification
   script and subprocess.Popen of the server *)
start_comfyui_server ==
    /\ launcher = "running"
    /\ launcher' = "launched"
    /\ UNCHANGED <<comfyui_started, hpc, probe, mfixed>>
    /\ UNCHANGED <<evars, xvars, cvars>>

(* line 506: one iteration of the loop of wait_for_server_ready *)
main_wait_for_server_ready ==
    /\ hpc = "waiting"
    /\ wait_for_server_ready

(* the loop left though the flag is not set *)
ReadyLoopDone_Always(started) == TRUE

(* line 257: `while not comfyui_started` is over *)
ReadyLoopDone(started) == started

(* line 507: runpod.serverless.start({"handler": handler}); jobs arrive *)
main_register ==
    /\ hpc = "waiting"
    /\ ReadyLoopDone(comfyui_started)
    /\ hpc' = "idle"
    /\ UNCHANGED <<comfyui_started, probe, launcher, mfixed>>
    /\ UNCHANGED <<evars, xvars, cvars>>

MainNext ==
    \/ main_start_thread
    \/ start_comfyui_server
    \/ main_wait_for_server_ready
    \/ main_register
    \/ handler_enter
    \/ handler_check
    \/ handler_prepare
    \/ handler_build
    \/ handler_configure
    \/ run_workflow_post
    \/ run_workflow_wait

(***************************************************************************)
(* flux_kontext_creator_exp.py: image buffers.  A tensor is described by   *)
(* its number of axes, its height, width and channel count, and one sample *)
(* pixel per frame of its batch; its values are frames[i][j] / denom.  A   *)
(* canvas that was pasted together keeps the list of its cells.            *)
(***************************************************************************)
MaxSlots == 5

(* the value 1.0 of torch.ones, with tensor values counted in quarters *)
One == 4
(* the factor of (tensor * 255).astype(np.uint8) *)
Uint8Max == 255
GridCells == 4

Tensor(dims, h, w, c, denom, frames) ==
    [dims |-> dims, height |-> h, width |-> w, channels |-> c,
     denom |-> denom, frames |-> frames, cells |-> <<>>]

(* a slot of kwargs that holds no image *)
NoTensor == Tensor(0, 0, 0, 0, One, <<>>)

(* IMAGE values of the host: [batch, height, width, channel] *)
PortraitRGB == Tensor(4, 64, 48, 3, One, << <<0, 2, 4>> >>)
WideRGB == Tensor(4, 32, 96, 3, One, << <<4, 2, 0>> >>)

(* an opaque and a translucent RGBA image, a batch of two RGB frames and a
   batch of two opaque RGBA frames besides *)
HostImages ==
    { PortraitRGB, WideRGB,
      Tensor(4, 32, 96, 4, One, << <<2, 0, 4, 4>> >>),
      Tensor(4, 64, 48, 4, One, << <<4, 0, 2, 2>> >>),
      Tensor(4, 64, 48, 3, One, << <<4, 4, 0>>, <<0, 4, 4>> >>),
      Tensor(4, 64, 48, 4, One, << <<2, 2, 2, 4>>, <<0, 0, 0, 4>> >>) }

(* the slots image_1 .. image_n of kwargs: any image or none in short lists,
   two images of different sizes in long ones *)
SlotLists ==
    SeqsUpTo(HostImages \cup {NoTensor}, 2)
    \cup {l \in SeqsUpTo({PortraitRGB, WideRGB}, MaxSlots) : Len(l) >= 3}

(* tensor.shape *)
shape(t) ==
    IF t.dims = 4 THEN <<Len(t.frames), t.height, t.width, t.channels>>
    ELSE <<t.height, t.width, t.channels>>

(* tensor.squeeze(0): the first axis goes only when its size is 1 *)
squeeze(t) == IF t.dims = 4 /\ Len(t.frames) = 1 THEN [t EXCEPT !.dims = 3] ELSE t

(* tensor.unsqueeze(0) of a [H, W, C] tensor *)
unsqueeze(t) == [t EXCEPT !.dims = 4]

(* rgb * alpha + white_bg * (1.0 - alpha), lines 135-139, for one pixel *)
Composite(px) ==
    [i \in 1..3 |-> (px[i] * px[4] + One * (One - px[4])) \div One]

(* lines 122-145 *)
_flatten_image(image_tensor) ==
    LET t == IF image_tensor.dims = 4 /\ shape(image_tensor)[1] = 1
             THEN squeeze(image_tensor) ELSE image_tensor
    IN IF Len(shape(t)) = 3 /\ shape(t)[3] = 4
       THEN unsqueeze(Tensor(3, t.height, t.width, 3, t.denom,
                             <<Composite(t.frames[1])>>))
       ELSE IF t.dims = 3 THEN unsqueeze(t) ELSE t

(***************************************************************************)
(* PIL images and the conversions between tensors and PIL images.          *)
(***************************************************************************)
Pil(w, h, bands, px, cells) ==
    [width |-> w, height |-> h, bands |-> bands, px |-> px, cells |-> cells]

(* Image.new('RGB', (w, h), (255, 255, 255)), with what was pasted on it *)
NewImage(w, h, cells) == Pil(w, h, 3, <<255, 255, 255>>, cells)

Exception(type, text, shapes) == [type |-> type, text |-> text, shapes |-> shapes]
NoException == Exception("", "", <<>>)

(* Image.fromarray refuses an array of four axes *)
FromarrayRaises(t) == t.dims = 4

(* Image.fromarray((t * 255).astype(np.uint8)) of a [H, W, C] tensor *)
fromarray(t) ==
    Pil(t.width, t.height, t.channels,
        [i \in 1..t.channels |-> (t.frames[1][i] * Uint8Max) \div t.denom], <<>>)

(* torch.from_numpy(np.array(pil).astype(np.float32) / 255.0).unsqueeze(0) *)
from_numpy(pil) ==
    [dims |-> 4, height |-> pil.height, width |-> pil.width,
     channels |-> pil.bands, denom |-> Uint8Max, frames |-> <<pil.px>>,
     cells |-> pil.cells]

RECURSIVE SeqSum(_, _)
SeqSum(s, i) == IF i > Len(s) THEN 0 ELSE s[i] + SeqSum(s, i + 1)

SetMax(S) == CHOOSE m \in S : \A x \in S : x <= m
SetMin(S) == CHOOSE m \in S : \A x \in S : m <= x

(* lines 191-204; img.resize(target_size, LANCZOS) sets the size *)
_resize_images(pil_images, mode) ==
    LET widths == {pil_images[i].width : i \in 1..Len(pil_images)}
        heights == {pil_images[i].height : i \in 1..Len(pil_images)}
    IN IF mode = "fit_largest"
       THEN [i \in 1..Len(pil_images) |->
               [pil_images[i] EXCEPT !.width = SetMax(widths),
                                     !.height = SetMax(heights)]]
       ELSE IF mode = "fit_smallest"
       THEN [i \in 1..Len(pil_images) |->
               [pil_images[i] EXCEPT !.width = SetMin(widths),
                                     !.height = SetMin(heights)]]
       ELSE pil_images

(* combined.paste(img, (x, y)) on an RGB canvas: the cell that img covers *)
Cell(img, x, y) ==
    [x |-> x, y |-> y, width |-> img.width, height |-> img.height,
     px |-> SubSeq(img.px, 1, 3)]

(* one gap too many: a gap after every image *)
TotalWidth_GapPerImage(pil_images, gap_px) ==
    SeqSum([i \in 1..Len(pil_images) |-> pil_images[i].width], 1)
    + gap_px * Len(pil_images)

(* line 208 *)
TotalWidth(pil_images, gap_px) ==
    SeqSum([i \in 1..Len(pil_images) |-> pil_images[i].width], 1)
    + gap_px * (Len(pil_images) - 1)

(* the loop of lines 214-217, from image i on *)
RECURSIVE PasteRow(_, _, _, _, _)
PasteRow(pil_images, gap_px, max_height, i, x_offset) ==
    IF i > Len(pil_images) THEN <<>>
    ELSE <<Cell(pil_images[i], x_offset, (max_height - pil_images[i].height) \div 2)>>
         \o PasteRow(pil_images, gap_px, max_height, i + 1,
                     x_offset + pil_images[i].width + gap_px)

(* lines 206-219 *)
_side_by_side_combine(pil_images, gap_px) ==
    LET max_height == SetMax({pil_images[i].height : i \in 1..Len(pil_images)})
    IN NewImage(TotalWidth(pil_images, gap_px), max_height,
                PasteRow(pil_images, gap_px, max_height, 1, 0))

(* the loop of lines 228-232, from layer i on, with p7 / p10 = 0.7 ** i:
   alpha = int(255 * (0.7 ** i)), and Image.alpha_composite of the layer
   on the opaque base, to the nearest level *)
RECURSIVE OverlayLoop(_, _, _, _, _)
OverlayLoop(base_px, pil_images, i, p7, p10) ==
    IF i + 1 > Len(pil_images) THEN base_px
    ELSE LET alpha == (Uint8Max * p7) \div p10
             over == pil_images[i + 1].px
         IN OverlayLoop(
              [k \in 1..3 |->
                 (over[k] * alpha + base_px[k] * (Uint8Max - alpha) + 127) \div Uint8Max],
              pil_images, i + 1, p7 * 7, p10 * 10)

(* lines 221-234 *)
_overlay_combine(pil_images) ==
    IF Len(pil_images) < 2 THEN pil_images[1]
    ELSE Pil(pil_images[1].width, pil_images[1].height, 3,
             OverlayLoop(SubSeq(pil_images[1].px, 1, 3), pil_images, 1, 7, 10), <<>>)

(* fillers of the size of the last image *)
GridImages_LastSize(pil_images) ==
    IF Len(pil_images) < GridCells
    THEN pil_images \o [i \in 1..(GridCells - Len(pil_images)) |->
                          NewImage(pil_images[Len(pil_images)].width,
                                   pil_images[Len(pil_images)].height, <<>>)]
    ELSE SubSeq(pil_images, 1, GridCells)

(* lines 238-242: white fillers up to four images, then the first four *)
GridImages(pil_images) ==
    IF Len(pil_images) < GridCells
    THEN pil_images \o [i \in 1..(GridCells - Len(pil_images)) |->
                          NewImage(pil_images[1].width, pil_images[1].height, <<>>)]
    ELSE SubSeq(pil_images, 1, GridCells)

(* lines 236-258 *)
_grid_combine(pil_images, gap_px) ==
    LET four == GridImages(pil_images)
        img_width == four[1].width
        img_height == four[1].height
        positions == << <<0, 0>>, <<img_width + gap_px, 0>>,
                        <<0, img_height + gap_px>>,
                        <<img_width + gap_px, img_height + gap_px>> >>
    IN NewImage(img_width * 2 + gap_px, img_height * 2 + gap_px,
                [i \in 1..Min(Len(four), Len(positions)) |->
                   Cell(four[i], positions[i][1], positions[i][2])])

(* the concatenation of the sequences seqs[i], seqs[i+1], ... *)
RECURSIVE Concat(_, _)
Concat(seqs, i) == IF i > Len(seqs) THEN <<>> ELSE seqs[i] \o Concat(seqs, i + 1)

Raised(e) == [raised |-> e, value |-> NoTensor]
Returned(v) == [raised |-> NoException, value |-> v]

(* lines 260-267; torch.cat(images, dim=0) *)
_all_in_one_combine(image_tensors) ==
    LET shapes == [i \in 1..Len(image_tensors) |-> shape(image_tensors[i])]
    IN IF Cardinality({shapes[i] : i \in 1..Len(shapes)}) > 1
       THEN Raised(Exception("ValueError",
                "All images must have same resolution for all_in_one. Found: ",
                shapes))
       ELSE Returned([image_tensors[1] EXCEPT
                        !.frames = Concat([i \in 1..Len(image_tensors) |->
                                             image_tensors[i].frames], 1)])

(* lines 147-189 *)
_combine_images(image_tensors, mode, resize_m, gap_px) ==
    IF \E i \in 1..Len(image_tensors) : FromarrayRaises(squeeze(image_tensors[i]))
    THEN Raised(Exception("TypeError", "Cannot handle this data type", <<>>))
    ELSE LET converted == [i \in 1..Len(image_tensors) |->
                             fromarray(squeeze(image_tensors[i]))]
             pil_images == IF resize_m # "no_resize"
                           THEN _resize_images(converted, resize_m)
                           ELSE converted
         IN IF mode = "side_by_side"
            THEN Returned(from_numpy(_side_by_side_combine(pil_images, gap_px)))
            ELSE IF mode = "overlay"
            THEN Returned(from_numpy(_overlay_combine(pil_images)))
            ELSE IF mode = "grid_2x2"
            THEN Returned(from_numpy(_grid_combine(pil_images, gap_px)))
            ELSE IF mode = "all_in_one"
            THEN _all_in_one_combine(image_tensors)
            ELSE Returned(from_numpy(pil_images[1]))

(***************************************************************************)
(* _generate_fusion_prompt, lines 269-303.  A text is the sequence of its  *)
(* pieces; the user's prompt is inserted piece by piece.                   *)
(***************************************************************************)
(* the list of line 275 without the overlay mode *)
SpatialModes_NoOverlay == {"side_by_side", "grid_2x2"}

SpatialModes == {"side_by_side", "grid_2x2", "overlay"}

_generate_fusion_prompt(user_prompt, num_images, fusion, mode) ==
    IF fusion /\ num_images >= 2
    THEN IF mode \in SpatialModes
         THEN <<"SINGLE-INPUT FUSION MODE: You are viewing a reference image containing multiple subjects/elements. Task: ">>
              \o user_prompt
              \o <<". FUSION APPROACH: ... rather than separate combined elements.">>
         ELSE <<"MULTI-ELEMENT SYNTHESIS: Process this reference containing ">>
              \o Str(num_images)
              \o <<" elements. Task: ">>
              \o user_prompt
              \o <<". FUSION MASTERY: ... polished composition.">>
    ELSE <<"Process the reference image(s) according to this instruction: ">>
         \o user_prompt
         \o <<". Focus on high-quality execution with proper lighting, composition, and realistic details.">>

(***************************************************************************)
(* process_images, lines 67-120.                                           *)
(***************************************************************************)
XMsg(ok, text, mode, caught) == [ok |-> ok, text |-> text, mode |-> mode, caught |-> caught]

(* lines 443-448: the black 512x512 image and the marked message *)
_create_error_response(text, caught) ==
    <<Tensor(4, BlankSize, BlankSize, 3, Uint8Max, << <<0, 0, 0>> >>),
      XMsg(FALSE, text, "", caught)>>

ExpInit ==
    /\ prompt \in {<<"Merge these two people">>, <<"swap", " ", "hats">>}
    /\ kwargs \in SlotLists
    /\ number_of_images \in {1} \cup ({Len(kwargs)} \ {0})
    /\ combination_mode \in
         {"side_by_side", "overlay", "grid_2x2", "all_in_one", "no_combine"}
    /\ force_fusion \in BOOLEAN
    /\ flatten_images \in BOOLEAN
    /\ resize_mode \in {"fit_largest", "fit_smallest", "no_resize"}
    /\ gap_pixels \in {0, 10}
    /\ xpc = "call"
    /\ collected = <<>>
    /\ final_image = NoTensor
    /\ enhanced_prompt = <<>>
    /\ xret = <<>>
    /\ xposts = 0
    /\ xcaught = NoException

(* the experimental node at rest, for the other specifications *)
ExpQuiet ==
    /\ prompt = <<>>
    /\ kwargs = <<>>
    /\ number_of_images = 1
    /\ combination_mode = "side_by_side"
    /\ force_fusion = TRUE
    /\ flatten_images = TRUE
    /\ resize_mode = "fit_largest"
    /\ gap_pixels = 10
    /\ xpc = "idle"
    /\ collected = <<>>
    /\ final_image = NoTensor
    /\ enhanced_prompt = <<>>
    /\ xret = <<>>
    /\ xposts = 0
    /\ xcaught = NoException

(* every slot collected, whatever number_of_images says *)
RECURSIVE Collect_All(_, _, _)
Collect_All(slots, i, n) ==
    IF i > Len(slots) THEN <<>>
    ELSE IF slots[i] # NoTensor
    THEN <<slots[i]>> \o Collect_All(slots, i + 1, n)
    ELSE Collect_All(slots, i + 1, n)

(* lines 82-86: kwargs.get(f"image_{i}") for i in range(1, n + 1), from i on *)
RECURSIVE Collect(_, _, _)
Collect(slots, i, n) ==
    IF i > n THEN <<>>
    ELSE IF i <= Len(slots) /\ slots[i] # NoTensor
    THEN <<slots[i]>> \o Collect(slots, i + 1, n)
    ELSE Collect(slots, i + 1, n)

XReturns(pair) ==
    /\ xret' = pair
    /\ xpc' = "done"

xfixed == <<prompt, number_of_images, combination_mode, force_fusion,
            flatten_images, resize_mode, gap_pixels, kwargs>>

(* lines 82-89 *)
process_images_collect ==
    /\ xpc = "call"
    /\ collected' = Collect(kwargs, 1, number_of_images)
    /\ IF collected' = <<>>
       THEN XReturns(_create_error_response("No valid images provided", NoException))
       ELSE /\ xpc' = "flatten"
            /\ UNCHANGED xret
    /\ UNCHANGED <<xfixed, final_image, enhanced_prompt, xposts, xcaught>>
    /\ UNCHANGED <<evars, hvars, cvars>>

(* lines 95-96 *)
process_images_flatten ==
    /\ xpc = "flatten"
    /\ collected' = IF flatten_images
                    THEN [i \in 1..Len(collected) |-> _flatten_image(collected[i])]
                    ELSE collected
    /\ xpc' = "combine"
    /\ UNCHANGED <<xfixed, final_image, enhanced_prompt, xret, xposts, xcaught>>
    /\ UNCHANGED <<evars, hvars, cvars>>

(* lines 99-103, and the except clause of lines 117-120 *)
process_images_combine ==
    /\ xpc = "combine"
    /\ IF Len(collected) > 1 /\ combination_mode # "no_combine"
       THEN LET r == _combine_images(collected, combination_mode, resize_mode, gap_pixels)
            IN IF r.raised # NoException
               THEN /\ xcaught' = r.raised
                    /\ XReturns(_create_error_response("Processing error: ", r.raised))
                    /\ UNCHANGED final_image
               ELSE /\ final_image' = r.value
                    /\ xpc' = "prompt"
                    /\ UNCHANGED <<xret, xcaught>>
       ELSE /\ final_image' = collected[1]
            /\ xpc' = "prompt"
            /\ UNCHANGED <<xret, xcaught>>
    /\ UNCHANGED <<xfixed, collected, enhanced_prompt, xposts>>
    /\ UNCHANGED <<evars, hvars, cvars>>

(* line 106 *)
process_images_prompt ==
    /\ xpc = "prompt"
    /\ enhanced_prompt' = _generate_fusion_prompt(prompt, Len(collected),
                                                  force_fusion, combination_mode)
    /\ xpc' = "submit"
    /\ UNCHANGED <<xfixed, collected, final_image, xret, xposts, xcaught>>
    /\ UNCHANGED <<evars, hvars, cvars>>

(* the first frame of the batch taken for the image *)
SubmissionBuffer_FirstFrame(image_tensor) ==
    IF image_tensor.dims = 4
    THEN [image_tensor EXCEPT !.dims = 3, !.frames = <<image_tensor.frames[1]>>]
    ELSE image_tensor

(* lines 311-312: the buffer that _flux_kontext_process converts *)
SubmissionBuffer(image_tensor) ==
    IF image_tensor.dims = 4 THEN squeeze(image_tensor) ELSE image_tensor

(* lines 109-115 with _flux_kontext_process, lines 305-384: the conversion
   of the image, the API key, the POST; once the request is POSTed the
   outcome is the image that _wait_for_result downloaded, or None *)
process_images_submit ==
    /\ xpc = "submit"
    /\ \E key \in XKeys, outcome \in {"image", "none"} :
         IF FromarrayRaises(SubmissionBuffer(final_image))
         THEN /\ XReturns(_create_error_response("Flux Kontext processing failed", NoException))
              /\ UNCHANGED xposts
         ELSE IF key = ""
         THEN /\ XReturns(_create_error_response("Flux Kontext processing failed", NoException))
              /\ UNCHANGED xposts
         ELSE /\ xposts' = xposts + 1
              /\ IF outcome = "image"
                 THEN XReturns(<<Tensor(4, 1024, 1024, 3, Uint8Max, << <<10, 20, 30>> >>),
                                 XMsg(TRUE, "Flux Kontext fusion complete: ",
                                      combination_mode, NoException)>>)
                 ELSE XReturns(_create_error_response("Flux Kontext processing failed",
                                                      NoException))
    /\ UNCHANGED <<xfixed, collected, final_image, enhanced_prompt, xcaught>>
    /\ UNCHANGED <<evars, hvars, cvars>>

ExpNext ==
    \/ process_images_collect
    \/ process_images_flatten
    \/ process_images_combine
    \/ process_images_prompt
    \/ process_images_submit

(***************************************************************************)
(* ConfigLoader, flux_kontext_creator.py lines 17-66.  A text is the       *)
(* sequence of its pieces, a URL scheme being the pieces "http", "s",      *)
(* "://".                                                                  *)
(***************************************************************************)
Https == <<"http", "s", "://">>
LegacyUrl == Https \o <<"api.bfl.ml">>
ProductionUrl == Https \o <<"api.bfl.ai">>

(* the parsed config.ini: no section, or an [API] section in which X_KEY
   and BASE_URL are each missing or present with one of these values *)
ConfigFiles ==
    LET urls == { LegacyUrl, <<"api.bfl.ml">>, <<"http", "://", "api.bfl.ml">>,
                  Https \o <<"api.bfl.ml", "/">>, ProductionUrl, <<"api.bfl.ai">>,
                  Https \o <<"proxy.example">>, <<>> }
        keys == {<<>>, <<"secret">>}
        sections ==
            {EmptyDict}
            \cup {Put(EmptyDict, "X_KEY", k) : k \in keys}
            \cup {Put(EmptyDict, "BASE_URL", u) : u \in urls}
            \cup {Put(Put(EmptyDict, "X_KEY", k), "BASE_URL", u) :
                    k \in keys, u \in urls}
    IN {EmptyDict} \cup {Put(EmptyDict, "API", a) : a \in sections}

Environs == {EmptyDict,
             Put(Put(EmptyDict, "X_KEY", <<"earlier">>), "BASE_URL", <<"earlier-url">>)}

ConfigInit ==
    /\ config_exists \in BOOLEAN
    /\ config \in ConfigFiles
    /\ environ \in Environs
    /\ cpc = "new"
    /\ craised = NoException

(* no ConfigLoader is being constructed, for the other specifications *)
ConfigQuiet ==
    /\ config_exists = FALSE
    /\ config = EmptyDict
    /\ environ = EmptyDict
    /\ cpc = "idle"
    /\ craised = NoException

CRaises(type, text) ==
    /\ craised' = Exception(type, text, <<>>)
    /\ cpc' = "raised"
    /\ UNCHANGED environ

(* __init__, lines 23-32, up to the call of set_api_config *)
ConfigLoader_init ==
    /\ cpc = "new"
    /\ IF ~config_exists
       THEN CRaises("FileNotFoundError", "Config file not found")
       ELSE /\ cpc' = "loaded"
            /\ UNCHANGED <<environ, craised>>
    /\ UNCHANGED <<config_exists, config>>
    /\ UNCHANGED <<evars, hvars, xvars>>

(* lines 48-57: the base URL that the [API] section api leads to; the
   legacy URL is replaced, a text that does not start with 'http' gets the
   scheme, a missing option gives the default *)
EffectiveBaseUrl(api) ==
    IF "BASE_URL" \in DOMAIN api
    THEN LET base_url == api["BASE_URL"]
         IN IF base_url = LegacyUrl THEN ProductionUrl
            ELSE IF ~(base_url # <<>> /\ base_url[1] = "http") THEN Https \o base_url
            ELSE base_url
    ELSE ProductionUrl

(* lines 34-66 *)
set_api_config ==
    /\ cpc = "loaded"
    /\ IF "API" \notin DOMAIN config
       THEN CRaises("KeyError", "Section 'API' not found in config file")
       ELSE IF "X_KEY" \notin DOMAIN config["API"]
       THEN CRaises("KeyError", "X_KEY not found in API section")
       ELSE IF config["API"]["X_KEY"] = <<>>
       THEN CRaises("KeyError", "X_KEY cannot be empty")
       ELSE /\ environ' = Put(Put(environ, "X_KEY", config["API"]["X_KEY"]),
                              "BASE_URL", EffectiveBaseUrl(config["API"]))
            /\ cpc' = "configured"
            /\ UNCHANGED craised
    /\ UNCHANGED <<config_exists, config>>
    /\ UNCHANGED <<evars, hvars, xvars>>

ConfigNext ==
    \/ ConfigLoader_init
    \/ set_api_config

InitEdit == EditInit /\ HandlerQuiet /\ ExpQuiet /\ ConfigQuiet

SpecEdit == InitEdit /\ [][EditNext]_vars

(* edit_image runs in one thread and every request it sends has a timeout,
   so the call keeps taking steps until it returns *)
SpecEditFair == InitEdit /\ [][EditNext]_vars /\ WF_vars(EditNext)

InitHandler == HandlerInit /\ EditQuiet /\ ExpQuiet /\ ConfigQuiet

SpecHandler == InitHandler /\ [][HandlerNext]_vars

(* run_workflow runs in one thread and every history GET is taken to
   return *)
SpecHandlerFair == InitHandler /\ [][HandlerNext]_vars /\ WF_vars(run_workflow_wait)

InitMain == MainInit /\ EditQuiet /\ ExpQuiet /\ ConfigQuiet
SpecMain == InitMain /\ [][MainNext]_vars

InitExp == ExpInit /\ EditQuiet /\ HandlerQuiet /\ ConfigQuiet

SpecExp == InitExp /\ [][ExpNext]_vars

InitConfig == ConfigInit /\ EditQuiet /\ HandlerQuiet /\ ExpQuiet

SpecConfig == InitConfig /\ [][ConfigNext]_vars

(***************************************************************************)
(* Properties of the remote edit client.                                   *)
(***************************************************************************)

(* C1: with every status GET answering 200, k-1 Pending responses followed
   by a Ready response with a result URL whose download succeeds give the
   decoded image after exactly k status polls and exactly one download
   (k in 1..max_attempts); max_attempts Pending responses give the timed-out
   exit after exactly max_attempts polls and no download; there is never a
   poll beyond max_attempts. *)
C1_PollsUntilReady ==
    /\ polls <= max_attempts
    /\ (epc = "done" /\ prevAllPending /\ IsReadyWithUrl(result)
          /\ DownloadSucceeds(img_response))
       => /\ wfrExit = "ready"
          /\ ret = <<DownloadedImage, ret[2]>> /\ ret[2].ok
          /\ polls = attempt /\ polls \in 1..max_attempts
          /\ downloads = 1
    /\ (epc = "done" /\ prevAllPending /\ polls = max_attempts
          /\ result = NoResponse)
       => /\ wfrExit = "timeout" /\ failure = "timeout"
          /\ downloads = 0
    /\ (wfrExit = "timeout") => polls = max_attempts

C1_Witness ==
    /\ epc = "done" /\ wfrExit = "ready" /\ prevAllPending
    /\ polls = max_attempts /\ downloads = 1

(* C3: a submission answered with HTTP 401 surfaces the invalid-API-key
   failure with no status GET and no download GET; no status poll is issued
   or pending unless the submission returned 200 with a non-empty task id. *)
C3_NoPollWithoutTask ==
    /\ (response.status_code = 401)
       => /\ epc = "done" /\ ret[2] = ErrMsg("Invalid API key")
          /\ polls = 0 /\ downloads = 0
    /\ (polls > 0 \/ downloads > 0 \/ epc \in {"sleep", "poll", "download"})
       => /\ response.raises = "" /\ response.status_code = 200
          /\ response.id # "" /\ task_id = response.id

C3_Witness ==
    epc = "done" /\ posts = 1 /\ response.status_code = 401 /\ polls = 0

(* C4: every failure kind makes edit_image return a pair (image, message)
   whose message carries the failure marker and whose image is the input
   image when keep_original_on_fail is set and the 512x512 blank image when
   it is not. *)
FailureKinds ==
    {"empty_instruction", "convert", "encode", "no_key", "http400", "http401",
     "http402", "http_other", "no_task_id", "timeout_exception",
     "connection_exception", "other_exception", "error_status", "timeout",
     "download_failed", "no_sample"}

C4_FailurePair ==
    (epc = "done") =>
       /\ Len(ret) = 2
       /\ failure \in FailureKinds \cup {"none"}
       /\ (failure = "none") <=> ret[2].ok
       /\ (failure # "none") =>
            IF keep_original_on_fail
            THEN ret[1] = input_image
            ELSE ret[1] = [src |-> "blank", height |-> 512, width |-> 512]

C4_Witness ==
    epc = "done" /\ failure = "download_failed" /\ ~keep_original_on_fail
    /\ ret[1].src = "blank"

(* C5: the submission outcome is classified into distinct caller-visible
   failures: 401 auth, 402 quota, 400 validation, any other non-200 server
   (with the status code), Timeout/ConnectionError transport, 200 without a
   task id protocol; the message identifies the kind. *)
SubmitKind(r) ==
    IF r.raises \in {"Timeout", "ConnectionError"} THEN "transport"
    ELSE IF r.raises # "" THEN "other"
    ELSE IF r.status_code = 401 THEN "auth"
    ELSE IF r.status_code = 402 THEN "quota"
    ELSE IF r.status_code = 400 THEN "validation"
    ELSE IF r.status_code # 200 THEN "server"
    ELSE IF r.json_ok /\ r.id = "" THEN "protocol"
    ELSE "other"

MsgKind(m) ==
    IF m.text = "Invalid API key" THEN "auth"
    ELSE IF m.text = "Insufficient credits in BFL account" THEN "quota"
    ELSE IF m.text = "Invalid request parameters" THEN "validation"
    ELSE IF m.text = "Server error: " THEN "server"
    ELSE IF m.text \in {"Request timeout - try again",
                        "Connection error - check internet"} THEN "transport"
    ELSE IF m.text = "No task ID received from server" THEN "protocol"
    ELSE "other"

C5_SubmitClassification ==
    (epc = "done") =>
       /\ (posts = 1) => MsgKind(ret[2]) = SubmitKind(response)
       /\ (posts = 0) => MsgKind(ret[2]) = "other"
       /\ (MsgKind(ret[2]) # "other") => ~ret[2].ok
       /\ (MsgKind(ret[2]) = "server") => ret[2].code = response.status_code

C5_Witness ==
    epc = "done" /\ response.status_code = 402 /\ MsgKind(ret[2]) = "quota"

(* C6 as stated: the failure surfaced after poll exhaustion differs from
   the failure surfaced for a remote Error status. *)
C6_Original ==
    (epc = "done" /\ wfrExit = "timeout")
       => ret[2] # ResultMessage(WfrReturnValue("error_status"))

(* C6 amended: poll exhaustion and a remote Error status leave
   wait_for_result by different exits, but both return None and edit_image
   surfaces the same generic failure for both. *)
C6_SameGenericFailure ==
    (epc = "done" /\ wfrExit \in {"timeout", "error_status"})
       => /\ ret[2] = ErrMsg("Failed to generate edited image")
          /\ ret[1] = (IF keep_original_on_fail THEN input_image ELSE create_blank_image)
          /\ failure = wfrExit
          /\ (wfrExit = "timeout") => (polls = max_attempts)
          /\ (wfrExit = "error_status") => (result.status = "Error")

C6_Witness ==
    epc = "done" /\ wfrExit = "timeout" /\ polls = max_attempts

(* C7: within one edit at most one submission POST and at most one
   result-download GET are issued. *)
C7_NoRetry == posts <= 1 /\ downloads <= 1

(* C8: the submitted payload has the key seed exactly when the caller's
   seed is >= 0, with the caller's value; prompt, input_image, aspect_ratio,
   safety_tolerance and output_format are always present. *)
C8_SeedKey ==
    (posts >= 1) =>
       /\ ("seed" \in DOMAIN payload) <=> (seed # -1)
       /\ ("seed" \in DOMAIN payload) => payload["seed"] = seed
       /\ {"prompt", "input_image", "aspect_ratio", "safety_tolerance",
           "output_format"} \subseteq DOMAIN payload
       /\ DOMAIN payload \subseteq
            {"prompt", "input_image", "aspect_ratio", "safety_tolerance",
             "output_format", "seed"}

C8_Witness ==
    posts = 1 /\ seed = 0 /\ payload["seed"] = 0

(* C9: an instruction that is empty or only whitespace returns the
   validation failure with no HTTP request; every submitted payload has a
   prompt that is not empty. *)
OnlyWhitespace(s) == \A i \in 1..Len(s) : s[i] \in Whitespace

C9_EmptyInstruction ==
    /\ (OnlyWhitespace(edit_instruction) /\ epc # "call")
       => /\ epc = "done"
          /\ ret[2] = ErrMsg("Edit instruction cannot be empty")
          /\ posts = 0 /\ polls = 0 /\ downloads = 0
    /\ (posts >= 1)
       => /\ Len(payload["prompt"]) > 0
          /\ ~OnlyWhitespace(payload["prompt"])

C9_Witness ==
    epc = "done" /\ edit_instruction = <<" ">> /\ posts = 0

(***************************************************************************)
(* Properties of the job handler.                                          *)
(***************************************************************************)
NodesOfClass(wf, c) == {id \in DOMAIN wf : wf[id].class_type = c}

References(wf) ==
    UNION {{wf[id].inputs[k].node : k \in {n \in DOMAIN wf[id].inputs : wf[id].inputs[n].list}}
             : id \in DOMAIN wf}

(* C2: for N in 1..5 the built graph has exactly N LoadImage nodes,
   max(0, N-1) ImageStitch nodes, one FluxKontextProImageNode and one
   SaveImage node under pairwise distinct ids, every [node-id, output-index]
   reference names a node of the graph, and validate_workflow accepts it. *)
C2_GraphShape ==
    (workflow # EmptyDict) =>
       LET N == Len(job["input"]["images"]) IN
       /\ N \in 1..5
       /\ Cardinality(NodesOfClass(workflow, "LoadImage")) = N
       /\ Cardinality(NodesOfClass(workflow, "ImageStitch"))
            = (IF N - 1 > 0 THEN N - 1 ELSE 0)
       /\ Cardinality(NodesOfClass(workflow, "FluxKontextProImageNode")) = 1
       /\ Cardinality(NodesOfClass(workflow, "SaveImage")) = 1
       /\ Cardinality(DOMAIN workflow) = N + (IF N - 1 > 0 THEN N - 1 ELSE 0) + 2
       /\ References(workflow) \subseteq DOMAIN workflow
       /\ References(workflow) # {}
       /\ validate_workflow(workflow)

C2_Witness ==
    /\ hpc = "configure"
    /\ Len(job["input"]["images"]) = 5
    /\ Cardinality(NodesOfClass(workflow, "ImageStitch")) = 4

(* C10: handler never lets an exception propagate, and what it returns is a
   mapping with exactly one of the keys images and error. *)
C10_NoPropagation ==
    /\ hraised = ""
    /\ hpc # "raised"
    /\ (hpc = "returned") => (DOMAIN hret = {"images"} \/ DOMAIN hret = {"error"})

(* the images of the job in hand; none when the field is missing *)
JobImages ==
    IF "input" \in DOMAIN job /\ "images" \in DOMAIN job["input"]
    THEN job["input"]["images"] ELSE <<>>

CountErrorText == "This endpoint requires 1 to 5 images, but N were provided."

EarlierErrorTexts ==
    {"ComfyUI server is not ready.", "ComfyUI server is not responding properly",
     "Required ComfyUI nodes are not available: "}

NamedEntries(entries) == {k \in 1..Len(entries) : "name" \in DOMAIN entries[k]}

(* C11: with a number of images outside 1..5 (0 and a missing images field
   included) handler returns the error payload that states the count, and
   no input file is written, no workflow built and no prompt POSTed; with
   1..5 images the inputs are prepared, then the workflow is built, then it
   is run, in that order (the run being reached unless the KeyError of an
   unnamed entry interrupts between build and run). *)
C11_ImageCountGate ==
    LET n == Len(JobImages) IN
    /\ (n \notin 1..5) =>
         /\ files = EmptyDict /\ workflow = EmptyDict
         /\ prompt_payload = EmptyDict /\ hposts = 0
         /\ hpc \in {"idle", "health", "returned", "raised"}
         /\ (hpc = "returned") =>
              /\ DOMAIN hret = {"error"}
              /\ \/ /\ hret["error"].text = CountErrorText
                    /\ hret["error"].num = n
                 \/ hret["error"].text \in EarlierErrorTexts
         /\ (hpc = "raised") => "input" \notin DOMAIN job
    /\ (hpc = "returned" /\ "error" \in DOMAIN hret
          /\ hret["error"].text = CountErrorText) => n \notin 1..5
    /\ (n \in 1..5) =>
         /\ (hpc = "prepare") =>
              files = EmptyDict /\ workflow = EmptyDict /\ hposts = 0
         /\ (hpc = "build") => workflow = EmptyDict /\ hposts = 0
         /\ (hpc \in {"configure", "run"}) => workflow # EmptyDict /\ hposts = 0
         /\ (hpc \in {"build", "configure", "run", "wait"} \/ workflow # EmptyDict) =>
              DOMAIN files = {JobImages[k]["name"] : k \in NamedEntries(JobImages)}
         /\ (hposts > 0) => workflow # EmptyDict /\ hposts = 1
         /\ (hpc = "wait") => hposts = 1
         /\ (hpc = "raised") =>
              /\ NamedEntries(JobImages) # 1..n
              /\ workflow # EmptyDict /\ hposts = 0

C11_Witness ==
    /\ hpc = "returned" /\ "input" \in DOMAIN job
    /\ "images" \notin DOMAIN job["input"]
    /\ hgets = 2
    /\ hret["error"].text = CountErrorText /\ hret["error"].num = 0

NotReadyPayload ==
    "error" :> [text |-> "ComfyUI server is not ready.", num |-> 0,
                detail |-> "", nodes |-> {}]

(* C12: the server-ready flag starts false, changes only from false to true,
   in a step of the readiness-probing loop whose probe GET returned 200 or
   404, and never returns to false; a handler call that finds the flag false
   returns the not-ready error without any HTTP request, input file or
   workflow. *)
C12_ReadyFlag ==
    /\ ~comfyui_started
    /\ [](/\ comfyui_started <=> probe \in {"200", "404"}
          /\ (hpc \in {"health", "prepare", "build", "configure", "run", "wait"}
                \/ hgets > 0 \/ hposts > 0 \/ files # EmptyDict
                \/ workflow # EmptyDict) => comfyui_started
          /\ (hpc = "returned" /\ hret = NotReadyPayload) =>
                /\ hgets = 0 /\ hposts = 0 /\ hpolls = 0
                /\ files = EmptyDict /\ workflow = EmptyDict)
    /\ [][/\ comfyui_started => comfyui_started'
          /\ (comfyui_started' # comfyui_started) =>
                /\ probe' \in {"200", "404"}
                /\ UNCHANGED <<job, hpc, files, workflow, prompt_payload,
                               prompt_id, hgets, hposts, hpolls, hret, hraised>>
          /\ (hpc = "idle" /\ hpc' # "idle" /\ ~comfyui_started) =>
                /\ hpc' = "returned" /\ hret' = NotReadyPayload
                /\ UNCHANGED <<comfyui_started, files, workflow, hgets, hposts>>]_vars

C12_Witness ==
    /\ hpc = "returned" /\ hret = NotReadyPayload
    /\ comfyui_started /\ probe = "404" /\ hgets = 0

Range(s) == {s[i] : i \in 1..Len(s)}

(* the ids of the load nodes, in the order of the images *)
LoadIds == << <<"1", "0">>, <<"1", "1">>, <<"1", "2">>, <<"1", "3">>, <<"1", "4">> >>

(* the stitch nodes reached from node id through image1, innermost first *)
RECURSIVE StitchChain(_, _)
StitchChain(wf, id) ==
    IF wf[id].class_type = "ImageStitch"
    THEN StitchChain(wf, wf[id].inputs["image1"].node) \o <<id>>
    ELSE <<>>

ListInputs(node) == {k \in DOMAIN node.inputs : node.inputs[k].list}

(* C13: for N in 2..5 the stitch nodes form a left fold in input order: the
   first stitch takes load node 1 as image1 and load node 2 as image2, the
   j-th stitch (j >= 2) takes stitch j-1 as image1 and load node j+1 as
   image2, and the edit node's input_image is the last stitch; for N = 1 the
   edit node's input_image is the single load node; the save node's only
   image input is the edit node; and once handler has set the names, the
   i-th load node names the i-th job image. *)
C13_LeftFold ==
    (workflow # EmptyDict) =>
       LET N == Len(JobImages)
           edit == CHOOSE id \in DOMAIN workflow :
                     workflow[id].class_type = "FluxKontextProImageNode"
           save == CHOOSE id \in DOMAIN workflow :
                     workflow[id].class_type = "SaveImage"
           edit_input == workflow[edit].inputs["input_image"]
           chain == StitchChain(workflow, edit_input.node)
       IN
       /\ edit_input.list /\ edit_input.index = 0
       /\ Range(chain) = NodesOfClass(workflow, "ImageStitch")
       /\ Len(chain) = N - 1
       /\ (N = 1) => edit_input.node = LoadIds[1]
       /\ (N >= 2) =>
            /\ workflow[chain[1]].inputs["image1"] = Ref(LoadIds[1], 0)
            /\ workflow[chain[1]].inputs["image2"] = Ref(LoadIds[2], 0)
            /\ \A j \in 2..(N - 1) :
                 /\ workflow[chain[j]].inputs["image1"] = Ref(chain[j - 1], 0)
                 /\ workflow[chain[j]].inputs["image2"] = Ref(LoadIds[j + 1], 0)
            /\ edit_input.node = chain[N - 1]
       /\ \A i \in 1..N : workflow[LoadIds[i]].class_type = "LoadImage"
       /\ ListInputs(workflow[save]) = {"images"}
       /\ workflow[save].inputs["images"] = Ref(edit, 0)
       /\ (hpc \in {"run", "wait", "returned"}) =>
            \A i \in 1..N :
               workflow[LoadIds[i]].inputs["image"] = Val(JobImages[i]["name"])

C13_Witness ==
    /\ hpc = "wait" /\ Len(JobImages) = 5
    /\ workflow[<<"1", "4">>].inputs["image"] = Val(<<"b.png">>)
    /\ workflow[<<"1", "0">>].inputs["image"] = Val(<<"a.png">>)
    /\ Cardinality(NodesOfClass(workflow, "ImageStitch")) = 4

(***************************************************************************)
(* Properties of the experimental node.                                    *)
(***************************************************************************)
(* the combination step is over and left an image for the API step *)
Combined(mode) ==
    /\ combination_mode = mode
    /\ final_image # NoTensor
    /\ Len(collected) >= 2

Largest(s) == CHOOSE m \in Range(s) : \A x \in Range(s) : x <= m
Smallest(s) == CHOOSE m \in Range(s) : \A x \in Range(s) : m <= x

InputWidths == [i \in 1..Len(collected) |-> collected[i].width]
InputHeights == [i \in 1..Len(collected) |-> collected[i].height]

(* the common size of the images after resizing under fit_largest or
   fit_smallest, the size of image i under no_resize *)
ResizedWidth(i) ==
    IF resize_mode = "fit_largest" THEN Largest(InputWidths)
    ELSE IF resize_mode = "fit_smallest" THEN Smallest(InputWidths)
    ELSE collected[i].width

ResizedHeight(i) ==
    IF resize_mode = "fit_largest" THEN Largest(InputHeights)
    ELSE IF resize_mode = "fit_smallest" THEN Smallest(InputHeights)
    ELSE collected[i].height

(* C14 as stated: for every resize mode the side_by_side combination of n
   images with gap g has width (sum of the input widths) + g*(n-1), and for
   two images the height max(A.height, B.height). *)
C14_Original ==
    Combined("side_by_side") =>
       /\ final_image.width
            = SeqSum(InputWidths, 1) + gap_pixels * (Len(collected) - 1)
       /\ (Len(collected) = 2) => final_image.height = Largest(InputHeights)

(* C14 amended: the side_by_side combination of n images with gap g has
   width (sum of the widths the images have after _resize_images) + g*(n-1)
   and the largest of their heights after resizing: with no_resize the sum
   of the input widths + g*(n-1) and the largest input height, with
   fit_largest n * (largest width) + g*(n-1) and the largest height, with
   fit_smallest n * (smallest width) + g*(n-1) and the smallest height. *)
C14_SideBySideAfterResize ==
    Combined("side_by_side") =>
       LET n == Len(collected) IN
       /\ (resize_mode = "no_resize") =>
            /\ final_image.width = SeqSum(InputWidths, 1) + gap_pixels * (n - 1)
            /\ final_image.height = Largest(InputHeights)
       /\ (resize_mode = "fit_largest") =>
            /\ final_image.width = n * Largest(InputWidths) + gap_pixels * (n - 1)
            /\ final_image.height = Largest(InputHeights)
       /\ (resize_mode = "fit_smallest") =>
            /\ final_image.width = n * Smallest(InputWidths) + gap_pixels * (n - 1)
            /\ final_image.height = Smallest(InputHeights)
       /\ final_image.channels = 3
       /\ Len(final_image.cells) = n
       /\ \A i \in 1..n :
            /\ final_image.cells[i].width = ResizedWidth(i)
            /\ final_image.cells[i].height = ResizedHeight(i)
            /\ final_image.cells[i].x
                 = SeqSum([k \in 1..(i - 1) |-> ResizedWidth(k) + gap_pixels], 1)

C14_Witness ==
    /\ Combined("side_by_side") /\ resize_mode = "fit_largest" /\ gap_pixels = 10
    /\ collected = <<PortraitRGB, WideRGB>>
    /\ final_image.width = 202 /\ final_image.height = 64

(* C15 as stated: requesting grid_2x2 always lays out exactly 4 cells on a
   canvas of (2w+g) x (2h+g), a single image A included (A plus 3 white
   fillers of A's size). *)
C15_Original ==
    (combination_mode = "grid_2x2" /\ final_image # NoTensor) =>
       /\ Len(final_image.cells) = 4
       /\ (Len(collected) = 1) =>
            /\ final_image.width = 2 * collected[1].width + gap_pixels
            /\ final_image.height = 2 * collected[1].height + gap_pixels
            /\ \A i \in 2..4 : final_image.cells[i].px = <<255, 255, 255>>

(* C15 amended: whenever _combine_images runs in grid_2x2 mode it lays out
   exactly 4 cells on a canvas of (2w+g) x (2h+g), w x h being the size of
   the first image after resizing: fewer than 4 images are followed by white
   fillers of that size, more than 4 are cut to the first 4; process_images
   combines only when more than one image was collected, so grid_2x2 for a
   single image A hands A itself to the API step and no grid is laid out. *)
C15_GridOfFour ==
    /\ Combined("grid_2x2") =>
         LET n == Len(collected)
             w == ResizedWidth(1)
             h == ResizedHeight(1)
             g == gap_pixels
         IN
         /\ Len(final_image.cells) = 4
         /\ final_image.width = 2 * w + g /\ final_image.height = 2 * h + g
         /\ final_image.channels = 3
         /\ <<final_image.cells[1].x, final_image.cells[1].y>> = <<0, 0>>
         /\ <<final_image.cells[2].x, final_image.cells[2].y>> = <<w + g, 0>>
         /\ <<final_image.cells[3].x, final_image.cells[3].y>> = <<0, h + g>>
         /\ <<final_image.cells[4].x, final_image.cells[4].y>> = <<w + g, h + g>>
         /\ \A i \in 1..4 :
              IF i <= n
              THEN /\ final_image.cells[i].width = ResizedWidth(i)
                   /\ final_image.cells[i].height = ResizedHeight(i)
                   /\ final_image.cells[i].px
                        = [k \in 1..3 |->
                             (collected[i].frames[1][k] * 255) \div collected[i].denom]
              ELSE /\ final_image.cells[i].width = w
                   /\ final_image.cells[i].height = h
                   /\ final_image.cells[i].px = <<255, 255, 255>>
    /\ (combination_mode = "grid_2x2" /\ final_image # NoTensor
          /\ Len(collected) = 1) =>
         /\ final_image = collected[1]
         /\ final_image.cells = <<>>

C15_Witness ==
    /\ Combined("grid_2x2") /\ resize_mode = "no_resize"
    /\ collected = <<WideRGB, PortraitRGB, PortraitRGB>>
    /\ final_image.cells[4].px = <<255, 255, 255>>
    /\ final_image.cells[4].width = 96
    /\ final_image.width = 192 + gap_pixels

(* the images collected from kwargs, before flattening *)
Slotted == Collect(kwargs, 1, number_of_images)

Opaque(t) == \A f \in 1..Len(t.frames) : t.frames[f][4] = One

(* C16: _flatten_image of a 4-channel buffer whose alpha is 1 everywhere
   returns exactly its first three channels, of a 3-channel buffer the same
   pixel values, and its result always has exactly 3 channels and a leading
   batch dimension. *)
C16_FlattenThreeChannels ==
    (flatten_images /\ xpc \notin {"call", "flatten"}) =>
       \A i \in 1..Len(collected) :
          /\ collected[i].channels = 3
          /\ collected[i].dims = 4
          /\ (Slotted[i].channels = 4 /\ Opaque(Slotted[i])) =>
               collected[i].frames
                 = [f \in 1..Len(Slotted[i].frames) |-> SubSeq(Slotted[i].frames[f], 1, 3)]
          /\ (Slotted[i].channels = 3) => collected[i].frames = Slotted[i].frames

(* is needle a contiguous part of text *)
Contains(text, needle) ==
    \E k \in 0..(Len(text) - Len(needle)) :
       SubSeq(text, k + 1, k + Len(needle)) = needle

CountText == << <<"1">>, <<"2">>, <<"3">>, <<"4">>, <<"5">>, <<"6">> >>

(* C17: with force_fusion and at least 2 images the prompt is the
   spatial-arrangement fusion template for side_by_side, grid_2x2 and
   overlay and the synthesis template, which states the image count, for
   any other mode; without force_fusion or with fewer than 2 images it is
   the passthrough template; the user's prompt appears verbatim in it. *)
C17_FusionTemplate ==
    (enhanced_prompt # <<>>) =>
       LET n == Len(collected) IN
       /\ (force_fusion /\ n >= 2
             /\ combination_mode \in {"side_by_side", "grid_2x2", "overlay"}) =>
            enhanced_prompt[1] = "SINGLE-INPUT FUSION MODE: You are viewing a reference image containing multiple subjects/elements. Task: "
       /\ (force_fusion /\ n >= 2
             /\ combination_mode \notin {"side_by_side", "grid_2x2", "overlay"}) =>
            /\ enhanced_prompt[1] = "MULTI-ELEMENT SYNTHESIS: Process this reference containing "
            /\ SubSeq(enhanced_prompt, 2, 3) = CountText[n] \o <<" elements. Task: ">>
       /\ (~force_fusion \/ n < 2) =>
            enhanced_prompt[1] = "Process the reference image(s) according to this instruction: "
       /\ Contains(enhanced_prompt, prompt)
       /\ Len(enhanced_prompt) > Len(prompt)

C17_Witness ==
    /\ xpc = "submit" /\ force_fusion /\ combination_mode = "no_combine"
    /\ Len(collected) = 3
    /\ enhanced_prompt[2] = "3"
    /\ Contains(enhanced_prompt, <<"swap", " ", "hats">>)

InputShapes == [i \in 1..Len(collected) |-> shape(collected[i])]

(* C18: in all_in_one mode buffers that do not all have the same shape make
   the combination fail with the shape error, which lists the shapes, and
   process_images returns the error response with no submission POST;
   buffers of one shape are concatenated along the batch axis in input
   order with no pixel value changed. *)
C18_AllInOne ==
    (combination_mode = "all_in_one" /\ Len(collected) >= 2
       /\ xpc \notin {"call", "flatten", "combine"}) =>
       IF \A i \in 1..Len(collected) : InputShapes[i] = InputShapes[1]
       THEN /\ final_image # NoTensor
            /\ final_image.frames
                 = Concat([i \in 1..Len(collected) |-> collected[i].frames], 1)
            /\ shape(final_image)
                 = <<SeqSum([i \in 1..Len(collected) |-> InputShapes[i][1]], 1),
                     InputShapes[1][2], InputShapes[1][3], InputShapes[1][4]>>
            /\ final_image.denom = collected[1].denom
       ELSE /\ xpc = "done" /\ xposts = 0
            /\ xcaught.type = "ValueError" /\ xcaught.shapes = InputShapes
            /\ ~xret[2].ok
            /\ <<xret[1].height, xret[1].width>> = <<512, 512>>
            /\ xret[1].frames = << <<0, 0, 0>> >>

(***************************************************************************)
(* Properties of ConfigLoader.                                             *)
(***************************************************************************)
(* C19: after set_api_config succeeds the effective BASE_URL is
   https://api.bfl.ai when [API] has no BASE_URL, and also whenever the
   configured BASE_URL names the legacy host api.bfl.ml, with or without
   the https:// scheme; a missing [API] section and a missing or empty
   X_KEY raise and set no value. *)
C19_BaseUrl ==
    /\ (cpc = "configured") =>
         /\ environ["X_KEY"] = config["API"]["X_KEY"] /\ environ["X_KEY"] # <<>>
         /\ ("BASE_URL" \notin DOMAIN config["API"]) =>
              environ["BASE_URL"] = <<"http", "s", "://", "api.bfl.ai">>
         /\ ("BASE_URL" \in DOMAIN config["API"]
               /\ config["API"]["BASE_URL"]
                    \in {<<"http", "s", "://", "api.bfl.ml">>, <<"api.bfl.ml">>}) =>
              environ["BASE_URL"] = <<"http", "s", "://", "api.bfl.ai">>
    /\ (cpc \in {"configured", "raised"} /\ config_exists
          /\ ("API" \notin DOMAIN config
                \/ "X_KEY" \notin DOMAIN config["API"]
                \/ config["API"]["X_KEY"] = <<>>)) =>
         /\ cpc = "raised" /\ craised.type = "KeyError"
    /\ (cpc = "raised") => environ \in Environs

(***************************************************************************)
(* The sleeps of the polling loop.                                         *)
(***************************************************************************)
(* the sum of min(2+k, 15) for k = 1..n *)
RECURSIVE SleepTotal(_)
SleepTotal(n) ==
    IF n = 0 THEN 0
    ELSE (IF 2 + n < 15 THEN 2 + n ELSE 15) + SleepTotal(n - 1)

(* the number of sleeps of the loop that are over *)
SleepsDone == IF epc = "sleep" THEN attempt - 1 ELSE attempt

(* C20: attempt k of the polling loop (k in 1..max_attempts) sleeps exactly
   min(2+k, 15) time units, and that sleep precedes the status GET of
   attempt k; no status GET is issued without its sleep, so the first poll
   comes no earlier than 3 time units after the submission. *)
C20_SleepBeforePoll ==
    /\ [](/\ slept = SleepTotal(SleepsDone)
          /\ polls = (IF epc = "poll" THEN SleepsDone - 1 ELSE SleepsDone)
          /\ (polls >= 1) => slept >= 3
          /\ (epc \in {"sleep", "poll"}) => attempt \in 1..max_attempts)
    /\ [][/\ (slept' # slept) =>
                /\ epc = "sleep" /\ epc' = "poll"
                /\ slept' - slept = (IF 2 + attempt < 15 THEN 2 + attempt ELSE 15)
                /\ polls' = polls /\ attempt' = attempt
          /\ (polls' # polls) =>
                /\ epc = "poll" /\ polls' = polls + 1
                /\ polls' = attempt /\ slept' = slept
                /\ slept = SleepTotal(attempt)]_vars

C20_Witness ==
    epc = "poll" /\ attempt = 14 /\ polls = 13 /\ slept = 132

(***************************************************************************)
(* The polling loop as a whole.                                            *)
(***************************************************************************)
(* C21 as stated: the total sleep time of a polling run that exhausts all
   20 attempts is the sum of min(2+k, 15) for k = 1..20, and that sum is
   approximately 280 time units (here: within a tenth of 280). *)
C21_Original ==
    (wfrExit = "timeout") =>
        /\ slept = SleepTotal(20)
        /\ 10 * (IF slept > 280 THEN slept - 280 ELSE 280 - slept) <= 280

(* C21: the total sleep time of a polling run that exhausts all 20 attempts
   is the sum of min(2+k, 15) for k = 1..20, and that sum is 222 time units:
   3 + 4 + ... + 14 for the attempts 1..12 and 15 for each of the attempts
   13..20. *)
C21_TotalSleep ==
    (wfrExit = "timeout") =>
        /\ polls = 20
        /\ slept = SleepTotal(20)
        /\ slept = 222
        /\ slept = ((3 + 14) * 12) \div 2 + 8 * 15

C21_Witness ==
    wfrExit = "timeout" /\ epc = "done" /\ polls = 20 /\ slept = 222

(* an answer to the status GET that the loop is to retry: an exception of
   the GET or of response.json(), a non-200 status code, the status Pending,
   an unrecognized or a missing status *)
TransientOutcome(r) ==
    \/ r.raises # ""
    \/ r.raises = "" /\ r.status_code # 200
    \/ r.raises = "" /\ r.status_code = 200 /\ ~r.json_ok
    \/ r.raises = "" /\ r.status_code = 200 /\ r.json_ok
         /\ r.status \in {"Pending", "Request Moderated", Absent}

(* an exception of the download GET or of the decoding of its content *)
DownloadRaises(d) ==
    d.raises # "" \/ (d.raises = "" /\ d.status_code = 200 /\ ~d.json_ok)

(* the attempt in hand is used up: the loop is at the sleep of the next
   attempt, or past the last attempt with the timed-out result *)
NextAttemptOrTimeout ==
    IF attempt < 20
    THEN /\ attempt' = attempt + 1
         /\ epc' = "sleep"
         /\ ret' = NoRet
         /\ wfrExit' = "none"
    ELSE /\ epc' = "done"
         /\ wfrExit' = "timeout"
         /\ ~ret'[2].ok

(* C22: in the polling loop, a non-200 status response, the status Pending,
   an unrecognized or missing status string and an exception raised while
   polling each consume exactly one attempt and are followed by the next
   attempt, or by the timed-out result after the last attempt, never by an
   early abort. *)
C22_TransientOutcomes ==
    [][/\ (polls' = polls + 1 /\ TransientOutcome(status_response')) =>
            /\ polls' = attempt
            /\ downloads' = downloads
            /\ NextAttemptOrTimeout
       /\ (downloads' = downloads + 1 /\ DownloadRaises(img_response')) =>
            /\ polls = attempt
            /\ NextAttemptOrTimeout]_vars

C22_Witness ==
    /\ epc = "sleep"
    /\ attempt = 3
    /\ polls = 2
    /\ status_response.status = Absent

(* the returns of wait_for_result that end the loop with a failure *)
FatalExits == {"error_status", "no_sample", "download_failed"}

(* the answer is a decoded 200 response with the status st *)
Answered(r, st) ==
    r.raises = "" /\ r.status_code = 200 /\ r.json_ok /\ r.status = st

ReadyWithoutUrl(r) == Answered(r, "Ready") /\ r.sample = ""

(* the download is answered with a status code other than 200 *)
Refused(d) == d.raises = "" /\ d.status_code # 200

(* C23: in the polling loop, a status response of Error, a Ready response
   without a nested result URL, and a Ready response whose download answers
   non-200 each end the loop immediately with a failure: no further status
   GET is issued afterwards even when attempts remain. *)
C23_FatalOutcomes ==
    /\ [](wfrExit \in FatalExits =>
             /\ epc = "done"
             /\ failure = wfrExit
             /\ ~ret[2].ok
             /\ polls = attempt)
    /\ [][/\ (polls' = polls + 1 /\ Answered(status_response', "Error")) =>
                /\ wfrExit' = "error_status"
                /\ downloads' = downloads
          /\ (polls' = polls + 1 /\ ReadyWithoutUrl(status_response')) =>
                /\ wfrExit' = "no_sample"
                /\ downloads' = downloads
          /\ (downloads' = downloads + 1 /\ Refused(img_response')) =>
                /\ Answered(status_response, "Ready")
                /\ wfrExit' = "download_failed"
          /\ (wfrExit \in FatalExits) =>
                (polls' = polls /\ downloads' = downloads)]_vars

C23_Witness ==
    /\ wfrExit = "download_failed"
    /\ epc = "done"
    /\ attempt = 2
    /\ polls = 2
    /\ downloads = 1

(***************************************************************************)
(* The life of one edit request.                                           *)
(***************************************************************************)
(* the network calls issued so far *)
Calls == posts + polls + downloads

(* the terminal state of a returned request *)
Terminal ==
    IF epc # "done" THEN "none"
    ELSE IF failure = "none" THEN "Completed"
    ELSE IF wfrExit = "timeout" THEN "TimedOut"
    ELSE "Failed"

(* C24: every edit request follows Built -> Submitted -> Polling ->
   {Completed | Failed | TimedOut}, a failure being possible at every stage:
   the request is submitted only once built, polled only once the submission
   was accepted, the network calls are issued one at a time, the download GET
   only after a status response of Ready carrying a result URL, every
   request eventually reaches exactly one terminal state, and no network
   call is issued after a terminal state is reached. *)
C24_RequestLifecycle ==
    /\ [](/\ posts \in {0, 1}
          /\ (posts = 1) => (payload # NoPayload /\ x_key # "")
          /\ (attempt >= 1) => (posts = 1 /\ response.status_code = 200
                                 /\ response.id # "")
          /\ (polls >= 1) => attempt >= 1
          /\ (downloads >= 1) => polls >= 1
          /\ (Terminal = "Completed") => (ret[2].ok /\ downloads >= 1)
          /\ (Terminal = "TimedOut") => (~ret[2].ok /\ polls = 20)
          /\ (Terminal = "Failed") => ~ret[2].ok)
    /\ [][/\ Calls' \in {Calls, Calls + 1}
          /\ (downloads' # downloads) =>
                /\ Answered(status_response, "Ready")
                /\ status_response.sample # ""
                /\ result = status_response
                /\ polls = attempt
          /\ (Terminal # "none") => (Terminal' = Terminal /\ Calls' = Calls)]_vars
    /\ <>(Terminal # "none")

C24_Witness ==
    /\ Terminal = "Completed"
    /\ posts = 1
    /\ polls = 5
    /\ downloads = 2

(***************************************************************************)
(* The wait loop of run_workflow.                                          *)
(***************************************************************************)
TimedOutError == HError("Workflow execution timed out after 5 minutes")
WorkflowFailedError == HErr("Workflow failed: ", 0, "messages", {})
IsImagesPayload(r) == DOMAIN r = {"images"}

(* run_workflow has returned from its wait loop *)
WaitLoopReturned == hpc = "returned" /\ prompt_id # ""

(* C25 as stated: once the local server has accepted the prompt, the wait
   loop returns the images payload, the workflow-failed error or the
   timed-out error, and nothing else, whenever the history GETs returned an
   answer. *)
C25_Original ==
    (WaitLoopReturned /\ history.raises # "ConnectionError") =>
        \/ IsImagesPayload(hret)
        \/ hret = WorkflowFailedError
        \/ hret = TimedOutError

(* C25: once the local server has accepted the prompt, the wait loop of
   run_workflow terminates (given that each history GET returns): it returns
   the images payload, the workflow-failed error, the workflow-execution-
   failed error when a history GET or the decoding of its answer raises, or,
   at the first loop iteration at which more than 300 s have elapsed since
   the loop started, the timed-out error; it pauses 0.5 s between history
   polls and sends no request but history GETs, so none that cancels the
   in-flight task.  (Termination is checked up to the bound on the number
   of polls of the model; every iteration that does not return moves the
   clock on by at least the pause.) *)
C25_WaitLoop ==
    /\ [](WaitLoopReturned =>
            \/ /\ IsImagesPayload(hret)
               /\ history.outputs # <<>>
               /\ history.status_str # "error"
            \/ /\ hret = WorkflowFailedError
               /\ history.status_str = "error"
            \/ /\ hret = HErr("Workflow execution failed: ", 0, history.raises, {})
               /\ history.raises # ""
            \/ /\ hret = TimedOutError
               /\ elapsed > 600)
    /\ [][(hpc = "wait") =>
            /\ hposts' = hposts
            /\ IF elapsed > 600
               THEN hret' = TimedOutError /\ hgets' = hgets /\ hpc' = "returned"
               ELSE /\ hgets' = hgets + 1
                    /\ hret' # TimedOutError
                    /\ (hpc' = "wait") =>
                          /\ (elapsed' - elapsed) - 1 \in GetDurations
                          /\ elapsed' >= elapsed + 1]_vars
    /\ (hpc = "wait") ~> (hpc = "returned" \/ hpolls = MaxHistoryPolls)

C25_Witness ==
    /\ WaitLoopReturned
    /\ hret = TimedOutError
    /\ elapsed = 601
    /\ hpolls = 3

(***************************************************************************)
(* The credentials in the prompt payload.                                  *)
(***************************************************************************)
(* the prompt was POSTed to the local server *)
Posted == hposts >= 1 /\ prompt_payload # EmptyDict

(* prompt_payload.get("extra_data", {}) *)
SentExtraData ==
    IF "extra_data" \in DOMAIN prompt_payload THEN prompt_payload["extra_data"]
    ELSE EmptyDict

(* the variable holds a non-empty value *)
IsSet(value) == value # <<>> /\ value # <<"">>

(* C26: in the request metadata built by run_workflow, comfy_api_key equals
   API_KEY_COMFY_ORG whenever that variable is set (to a non-empty value)
   and equals AUTH_TOKEN_COMFY_ORG only when the API key is unset; the key
   'auth_token' is never present; when neither variable is set the prompt
   payload carries no extra_data field and the workflow is still POSTed. *)
C26_Credentials ==
    Posted =>
        LET token == credentials[1]
            key == credentials[2]
        IN /\ IsSet(key) =>
                 /\ "comfy_api_key" \in DOMAIN SentExtraData
                 /\ SentExtraData["comfy_api_key"] = key
           /\ (~IsSet(key) /\ IsSet(token)) =>
                 /\ "comfy_api_key" \in DOMAIN SentExtraData
                 /\ SentExtraData["comfy_api_key"] = token
           /\ ("comfy_api_key" \in DOMAIN SentExtraData
                 /\ SentExtraData["comfy_api_key"] # key) => ~IsSet(key)
           /\ "auth_token" \notin DOMAIN SentExtraData
           /\ (~IsSet(key) /\ ~IsSet(token)) =>
                 /\ "extra_data" \notin DOMAIN prompt_payload
                 /\ "prompt" \in DOMAIN prompt_payload
                 /\ prompt_payload["prompt"] = workflow
                 /\ hposts = 1

C26_Witness ==
    /\ Posted
    /\ credentials = << <<"token">>, <<"bfl-key">> >>
    /\ SentExtraData["comfy_api_key"] = <<"bfl-key">>
    /\ hpc = "wait"

(***************************************************************************)
(* The main flow.                                                          *)
(***************************************************************************)
(* the handler is registered with the serverless runtime *)
Registered == hpc \notin {"main", "waiting"}

(* C27: in the program's main flow the job handler is registered with the
   serverless runtime only after the readiness loop has observed the server
   and set the ready flag to true, while the server launch runs in a
   separate daemon thread; hence under every interleaving of the launch
   thread and the main thread, no job dispatched in that flow is handled
   while the flag is false. *)
C27_RegisteredWhenReady ==
    /\ [](/\ Registered => comfyui_started
          /\ (job # NoJob) => comfyui_started
          /\ hret # HError("ComfyUI server is not ready.")
          /\ comfyui_started => (probe \in {"200", "404"} /\ launcher = "launched"))
    /\ [][/\ comfyui_started => comfyui_started'
          /\ (comfyui_started' # comfyui_started) => (hpc = "waiting" /\ hpc' = "waiting")
          /\ (job' # job) => (comfyui_started /\ hpc = "idle")
          /\ (launcher' # launcher) => comfyui_started' = comfyui_started]_vars

C27_Witness ==
    /\ comfyui_started
    /\ job # NoJob
    /\ hpc = "returned"
    /\ IsImagesPayload(hret)
    /\ probe = "404"

(***************************************************************************)
(* The history entries.                                                    *)
(***************************************************************************)
(* the answer to the history GET holds an entry for the prompt *)
HasEntry(res) == res.raises = "" /\ res.status_code = 200 /\ res.has_entry

(* C28: in run_workflow's history polling, a history entry whose status is
   'error' yields the workflow-failed error payload even when the entry also
   contains outputs (the error check precedes the outputs check), and a
   history entry with empty outputs and a non-error status is never treated
   as complete, so polling that is answered continues until outputs appear,
   an error status appears or the 300 s timeout fires. *)
C28_HistoryEntries ==
    [][/\ (hpolls' = hpolls + 1 /\ HasEntry(history')
            /\ history'.status_str = "error") =>
            /\ hret' = WorkflowFailedError
            /\ hpc' = "returned"
       /\ (hpolls' = hpolls + 1 /\ HasEntry(history')
            /\ history'.status_str # "error" /\ history'.outputs = <<>>) =>
            /\ hpc' = "wait"
            /\ hret' = NoResult
            /\ elapsed' >= elapsed + 1
       /\ (hpc = "wait" /\ hpc' # "wait" /\ history'.raises = "") =>
            \/ /\ hpolls' = hpolls + 1
               /\ HasEntry(history')
               /\ history'.status_str # "error"
               /\ history'.outputs # <<>>
               /\ IsImagesPayload(hret')
            \/ /\ hpolls' = hpolls + 1
               /\ HasEntry(history')
               /\ history'.status_str = "error"
               /\ hret' = WorkflowFailedError
            \/ /\ hpolls' = hpolls
               /\ elapsed > 600
               /\ hret' = TimedOutError]_vars

C28_Witness ==
    /\ WaitLoopReturned
    /\ HasEntry(history)
    /\ history.status_str = "error"
    /\ history.outputs # <<>>
    /\ hret = WorkflowFailedError
    /\ hpolls = 2

(***************************************************************************)
(* The batch of the all_in_one mode.                                       *)
(***************************************************************************)
(* process_images is about to submit the stack of two or more images *)
StackAtSubmission ==
    xpc = "submit" /\ combination_mode = "all_in_one" /\ Len(collected) >= 2

(* C29: in all_in_one mode with N >= 2 images of identical shape, the buffer
   that _flux_kontext_process converts for submission still has batch size
   N: the batch axis is removed only when it has size 1, so the stacked
   batch is never reduced to a single height x width x channel image before
   encoding (and the encoding of the four-axis buffer fails: no request is
   POSTed). *)
C29_StackKeepsBatch ==
    /\ [](StackAtSubmission =>
             /\ \A i \in 1..Len(collected) : shape(collected[i]) = shape(collected[1])
             /\ shape(final_image) =
                  <<Len(collected), collected[1].height, collected[1].width,
                    collected[1].channels>>
             /\ Len(final_image.frames) >= 2)
    /\ [][StackAtSubmission =>
             /\ xposts' = xposts
             /\ ~xret'[2].ok
             /\ final_image' = final_image]_vars

C29_Witness ==
    /\ StackAtSubmission
    /\ Len(collected) = 3
    /\ shape(final_image) = <<3, 64, 48, 3>>

(***************************************************************************)
(* The slots of process_images.                                            *)
(***************************************************************************)
(* the images of the slots image_1 .. image_{number_of_images}, in order *)
SlotsInRange ==
    SelectSeq(SubSeq(kwargs, 1, IF number_of_images < Len(kwargs)
                                THEN number_of_images ELSE Len(kwargs)),
              LAMBDA t : t # NoTensor)

(* the image of slot list position i as the later steps see it *)
Prepared(i) ==
    IF flatten_images THEN _flatten_image(SlotsInRange[i]) ELSE SlotsInRange[i]

(* C30: process_images considers only the slots image_1 ..
   image_{number_of_images}, skips absent slots and keeps slot order; if no
   slot in that range holds an image it returns the blank-image error
   response without any submission POST; if exactly one image is collected
   or the mode is no_combine, the first collected image (flattened when
   flatten_images is set) is submitted and no combination step runs,
   whatever combination mode was requested. *)
C30_Slots ==
    /\ (xpc = "flatten") => collected = SlotsInRange
    /\ (xpc \in {"combine", "prompt", "submit"}) =>
          /\ Len(collected) = Len(SlotsInRange)
          /\ \A i \in 1..Len(collected) : collected[i] = Prepared(i)
    /\ (xpc # "call" /\ SlotsInRange = <<>>) =>
          /\ xpc = "done"
          /\ ~xret[2].ok
          /\ xret[2].text = "No valid images provided"
          /\ <<xret[1].height, xret[1].width>> = <<512, 512>>
          /\ xposts = 0
    /\ (xpc \in {"prompt", "submit"}
          /\ (Len(SlotsInRange) = 1 \/ combination_mode = "no_combine")) =>
          /\ final_image = Prepared(1)
          /\ final_image.cells = <<>>
          /\ xcaught = NoException

C30_Witness ==
    /\ xpc = "submit"
    /\ number_of_images = 1
    /\ Len(kwargs) = 3
    /\ combination_mode = "grid_2x2"
    /\ kwargs[1] = WideRGB
    /\ final_image = WideRGB

====
